---- MODULE Spec2Model ----
(***************************************************************************)
(* Model of the incremental bar downloaders of edge-orb-performance-site:  *)
(* scripts/databento_downloader.py, scripts/polygon_downloader.py and      *)
(* scripts/polygon_service.py, and of the export loop of                   *)
(* tv_downloader/tv_downloader.py.                                         *)
(*                                                                         *)
(* The module holds several specifications over one set of variables:      *)
(*   SpecMerge  append_to_csv run to completion, any sequence of merges    *)
(*   SpecWrite  append_to_csv with its file write split into steps, and a  *)
(*              process crash possible between them                        *)
(*   SpecRun    one symbol's pass through the loop body of main(), in the  *)
(*              Databento and in the Polygon downloader                    *)
(*   SpecFetch1 the Polygon fetcher (rate limiter, retry and batch loop)   *)
(*              in one thread of control                                   *)
(*   SpecFetch2 the same fetcher in two threads of polygon_service         *)
(*   SpecBatches the batch loop of download_and_merge_data with each       *)
(*              get_polygon_data call taken whole, up to MAX_BATCHES       *)
(*   SpecRange  the Databento run with download_and_process_range taken    *)
(*              request by request                                         *)
(*   SpecDownloads a download of either provider, request by request       *)
(*   SpecRepair append_to_csv over a store file that may not parse         *)
(*   SpecMain   the per-symbol loop of the Databento main()                *)
(*   SpecNormalize process_data and process_databento_frame over raw       *)
(*              responses whose timestamps may not parse                   *)
(*   SpecRangeLive the request loop of download_and_process_range with     *)
(*              any number of availability errors, under fairness          *)
(*   SpecBatchesLive SpecBatches with its loop steps taken fairly          *)
(*   SpecYield  SpecDownloads and SpecNormalize together: a fetch up to    *)
(*              the normalised frame, which may have no rows               *)
(*   SpecService the download handler of polygon_service in two threads    *)
(*   SpecSchedule next_loop_timestamp applied to a time and a window       *)
(*   SpecLoop   the main loop of interactive_session: scheduled runs,      *)
(*              pause, resume, stop, window changes and selections         *)
(* A specification leaves the variables of the other parts unchanged.      *)
(***************************************************************************)
EXTENDS Integers, Sequences, FiniteSets, TLC

VARIABLES
    storeExists,   \* output_file.exists()
    store,         \* rows of the store file, in file order (header excluded)
    newBars,       \* final_df of the last append_to_csv call
    prevStore,     \* rows of the store file before the last append_to_csv call
    prevExists,    \* output_file.exists() before the last append_to_csv call
    nMerges,       \* append_to_csv calls made with freshly fetched bars
    mpc,           \* "idle" | "merged" | "remerged" | "writing" | "crashed" | "converted" | "raised"
    pending        \* rows that to_csv still has to write (SpecWrite)

mergeVars == <<storeExists, store, newBars, prevStore, prevExists, nMerges, mpc, pending>>

VARIABLES
    flow,          \* "databento" | "polygon": which downloader's main() runs
    today,         \* datetime.now(tz).date() read at the top of main()
    rpc,           \* "start" | "skipped" | "planned" | "requesting" | "asked" | "rejected" | "fetched" | "raised" | "done"
    startDate,     \* start_date of the loop body (a day number)
    endDate,       \* end_date of the loop body
    todayMarket,   \* today_market read by download_and_merge_data
    requests       \* the remote requests of the run, in order

runVars == <<flow, today, rpc, startDate, endDate, todayMarket, requests>>

VARIABLES
    clock,             \* time_module.monotonic(), in seconds
    LAST_REQUEST_TS,   \* the module's _LAST_REQUEST_TS
    th,                \* per thread of control: its position and local variables
    departures         \* the times of the last two HTTP requests sent, oldest first

fetchVars == <<clock, LAST_REQUEST_TS, th, departures>>

VARIABLES
    end_dt,        \* download_and_process_range: the end of the next request
    adjusted,      \* download_and_process_range: the end was narrowed before
    reports,       \* the availability boundaries the provider reported, in order
    outcome        \* how download_and_process_range ended

rangeVars == <<end_dt, adjusted, reports, outcome>>

VARIABLES
    raw,           \* the raw records of the provider response being normalised
    targets,       \* main(): the store files of the symbols, in loop order
    cursor,        \* main(): the position of the for loop in targets
    mainPc,        \* "idle" | "top" | "plan" | "download" | "raised" | "finished"
    lastRead,      \* main(): last_date of the symbol at the cursor
    outcomes       \* main(): how the loop body ended for the symbols done so far

mainVars == <<raw, targets, cursor, mainPc, lastRead, outcomes>>

VARIABLES
    DOWNLOAD_STATUS,   \* polygon_service: the state recorded for each symbol
    hd                 \* polygon_service: each request handler's position and locals

serviceVars == <<DOWNLOAD_STATUS, hd>>

VARIABLES
    wall,              \* tv_downloader: datetime.now(NEW_YORK_TZ), in ticks
    loop_state,        \* interactive_session: the scheduled loop and its next_run
    paused,            \* interactive_session: paused
    loop_start_time,   \* interactive_session: start of the loop window
    loop_end_time,     \* interactive_session: end of the loop window
    loopLog            \* interactive_session: the latest scheduled run or resume, if any

loopVars == <<wall, loop_state, paused, loop_start_time, loop_end_time, loopLog>>

vars == <<mergeVars, runVars, fetchVars, rangeVars, mainVars, serviceVars, loopVars>>

-----------------------------------------------------------------------------
(* Bounds of the model.                                                    *)

\* Longest store file of an initial state (rows 0 .. n-1 of the timeline).
MaxRows == 12
\* Longest block of freshly fetched bars handed to one append_to_csv call.
MaxNew == 6
\* append_to_csv calls with freshly fetched bars in one behaviour.
MaxMerges == 1

-----------------------------------------------------------------------------
(* Time and the two representations of caldt.                              *)

MinutesPerDay == 24 * 60
\* The modelled timeline has three bars a day, at 04:00, 09:30 and 16:00
\* exchange time (inside the 04:00-19:59 window process_data keeps).
DayBars == <<4 * 60, 9 * 60 + 30, 16 * 60>>

\* The timestamp (minutes since the epoch's midnight) of bar i of the timeline.
BarTime(i) == (i \div Len(DayBars)) * MinutesPerDay + DayBars[(i % Len(DayBars)) + 1]

\* A caldt cell of a frame is either a Timestamp (new rows) or, for rows read
\* by pd.read_csv, what the file holds in the column: the text
\* "%Y-%m-%d %H:%M:%S" (a date and a time of day), nothing (<<"blank">>, read
\* as NaN), text that is no date (<<"text">>), or a number.
Ts(t) == <<"ts", t>>
Str(d, m) == <<"str", d, m>>
Num(n) == <<"num", n>>
BlankCaldt == <<"blank">>
GarbledCaldt == <<"text">>

\* A Timestamp is kept as minute * Nanos + ns: the minute counted from the
\* midnight that starts day 0, and the nanoseconds past that minute, of which
\* the first Nanos are told apart (every number a caldt column holds here is
\* below Nanos).
Nanos == 64

\* The Timestamp of a whole minute, and the minute a Timestamp lies in.
Timestamp(m) == m * Nanos
Minute(ts) == ts \div Nanos

\* pd.to_datetime(..., errors="coerce") of a value that does not parse.
NaT == -1

\* 1970-01-01, in days counted from 2023-12-30.
EpochDay == -19721

\* pd.to_datetime(combined["caldt"], errors="coerce"): text is parsed,
\* Timestamps are kept, a number is that many nanoseconds after the epoch
\* (unit "ns"), and an empty cell or text that is no date is NaT.
to_datetime(c) ==
    IF c[1] = "str" THEN Timestamp(c[2] * MinutesPerDay + c[3])
    ELSE IF c[1] = "ts" THEN Timestamp(c[2])
    ELSE IF c[1] = "num" THEN Timestamp(EpochDay * MinutesPerDay) + c[2]
    ELSE NaT

\* Series.dt.strftime("%Y-%m-%d %H:%M:%S"): the text has no place for what
\* lies below the second. NaT gives NaN, which to_csv writes as an empty cell.
strftime(ts) ==
    IF ts = NaT THEN BlankCaldt
    ELSE Str(Minute(ts) \div MinutesPerDay, Minute(ts) % MinutesPerDay)

\* The day number of minute t (result["caldt"].dt.strftime("%Y-%m-%d") of a
\* bar at t), and of a Timestamp (Series.dt.date).
DayOf(t) == t \div MinutesPerDay
dt_date(ts) == DayOf(Minute(ts))

\* A row of a normalised frame (process_databento_frame / process_data): val
\* stands for the bar's open, high, low, close, volume, vwap, transactions.
NewRow(t, v) == [caldt |-> Ts(t), val |-> v, day |-> DayOf(t)]

\* A row of the store file as append_to_csv writes it.
FileRow(t, v) == [caldt |-> strftime(Timestamp(t)), val |-> v, day |-> DayOf(t)]

-----------------------------------------------------------------------------
(* DataFrame.sort_values("caldt") with the default kind="quicksort": numpy's *)
(* argsort of a datetime64 column, an introsort that partitions ranges of  *)
(* more than SMALL_QUICKSORT + 1 elements around a median of three and     *)
(* insertion-sorts the rest. It is not stable.                             *)

SMALL_QUICKSORT == 16

Swap(s, i, j) == [s EXCEPT ![i] = s[j], ![j] = s[i]]

\* do ++pi while v[*pi] < vp: the first position from pi on whose key is
\* not below the pivot.
ScanUp(v, idx, pi, vp) ==
    CHOOSE p \in pi..Len(idx) :
        /\ ~(v[idx[p]] < vp)
        /\ \A q \in pi..(p - 1) : v[idx[q]] < vp

\* do --pj while vp < v[*pj]: the last position up to pj whose key is not
\* above the pivot.
ScanDown(v, idx, pj, vp) ==
    CHOOSE p \in 1..pj :
        /\ ~(vp < v[idx[p]])
        /\ \A q \in (p + 1)..pj : vp < v[idx[q]]

\* The partition loop: <<idx, pi>> when the two scans meet. (Each new
\* permutation is worked out, Len(..) > 0, before the loop goes on with it.)
RECURSIVE PartitionLoop(_, _, _, _, _)
PartitionLoop(v, idx, pi, pj, vp) ==
    LET i2 == ScanUp(v, idx, pi + 1, vp)
        j2 == ScanDown(v, idx, pj - 1, vp)
        swapped == Swap(idx, i2, j2)
    IN  IF i2 >= j2 THEN <<idx, i2>>
        ELSE IF Len(swapped) > 0 THEN PartitionLoop(v, swapped, i2, j2, vp)
        ELSE <<idx, i2>>

MedianOfThree(v, idx, pl, pm, pr) ==
    LET a == IF v[idx[pm]] < v[idx[pl]] THEN Swap(idx, pm, pl) ELSE idx
        b == IF v[a[pr]] < v[a[pm]] THEN Swap(a, pr, pm) ELSE a
    IN  IF v[b[pm]] < v[b[pl]] THEN Swap(b, pm, pl) ELSE b

\* Insert idx[i] into the sorted range pl .. i-1, after every equal key.
RECURSIVE InsertAt(_, _, _, _)
InsertAt(v, idx, pl, j) ==
    LET swapped == Swap(idx, j, j - 1)
    IN  IF j > pl /\ v[idx[j]] < v[idx[j - 1]] /\ Len(swapped) > 0
        THEN InsertAt(v, swapped, pl, j - 1)
        ELSE idx

RECURSIVE InsertionSort(_, _, _, _, _)
InsertionSort(v, idx, pl, pr, i) ==
    LET inserted == InsertAt(v, idx, pl, i)
    IN  IF i > pr THEN idx
        ELSE IF Len(inserted) > 0 THEN InsertionSort(v, inserted, pl, pr, i + 1)
        ELSE idx

RECURSIVE aquicksort(_, _, _, _)
aquicksort(v, idx, pl, pr) ==
    IF pr - pl > SMALL_QUICKSORT
    THEN LET pm == pl + ((pr - pl) \div 2)
             m == MedianOfThree(v, idx, pl, pm, pr)
             vp == v[m[pm]]
             res == PartitionLoop(v, Swap(m, pm, pr - 1), pl, pr - 1, vp)
             pi == res[2]
             t == Swap(res[1], pi, pr - 1)
             left == aquicksort(v, t, pl, pi - 1)
         IN  IF Len(left) > 0 THEN aquicksort(v, left, pi + 1, pr) ELSE idx
    ELSE InsertionSort(v, idx, pl, pr, pl + 1)

\* argsort: the permutation that sorts the keys v.
argsort(v) ==
    IF Len(v) = 0 THEN <<>>
    ELSE aquicksort(v, [i \in 1..Len(v) |-> i], 1, Len(v))

\* Faulty variant of sort_values: the frame is left in concatenation order.
sort_values_omitted(frame) == frame

\* combined.sort_values("caldt"), on a frame whose caldt are Timestamps
\* (kept in field t).
\* The rows whose caldt is NaT come last (na_position="last"), in the order
\* they had.
sort_values(frame) ==
    LET timed == SelectSeq(frame, LAMBDA r : r.t # NaT)
        untimed == SelectSeq(frame, LAMBDA r : r.t = NaT)
        idx == argsort([i \in 1..Len(timed) |-> timed[i].t])
    IN  [i \in 1..Len(timed) |-> timed[idx[i]]] \o untimed

\* Faulty variant of drop_duplicates_last: drop_duplicates(keep="last") with no
\* subset, which compares whole rows.
drop_duplicates_whole_rows(frame) ==
    SelectSeq([i \in 1..Len(frame) |-> [row |-> frame[i], pos |-> i]],
              LAMBDA e : \A j \in (e.pos + 1)..Len(frame) : frame[j] # e.row)

\* Faulty variant of drop_duplicates_last: drop_duplicates(subset=["caldt"],
\* keep=False), which drops every row whose caldt occurs twice.
drop_duplicates_keep_none(frame) ==
    SelectSeq([i \in 1..Len(frame) |-> [row |-> frame[i], pos |-> i]],
              LAMBDA e : \A j \in 1..Len(frame) : j # e.pos => frame[j].t # e.row.t)

\* drop_duplicates(subset=["caldt"], keep="last"): a row stays when no later
\* row of the frame has its caldt.
drop_duplicates_last(frame) ==
    SelectSeq([i \in 1..Len(frame) |-> [row |-> frame[i], pos |-> i]],
              LAMBDA e : \A j \in (e.pos + 1)..Len(frame) : frame[j].t # e.row.t)

Rows(tagged) == [i \in 1..Len(tagged) |-> tagged[i].row]

-----------------------------------------------------------------------------
(* append_to_csv                                                           *)

\* A line of the store file with one field more than the header has.
LongRow(t, v) == [caldt |-> strftime(Timestamp(t)), val |-> v, day |-> DayOf(t), extra |-> v]

\* The line has a field beyond the header's columns.
IsLong(line) == "extra" \in DOMAIN line

\* The bar's columns of a line read one column to the left of where they
\* were written: high under open, ..., the day's text under transactions.
Shifted(v) == -1 - v

\* A day cell that is empty (also: no such column), and one whose text
\* strptime("%Y-%m-%d") rejects; any other day cell is a day number.
BlankCell == -100000
GarbledCell == -100001

\* pd.read_csv(output_file). The width of the table is that of the first
\* data line. When that line has one field more than the header, the first
\* field of every line is taken for the index: caldt holds the numbers
\* written under open, and day holds the field beyond the header (a number,
\* no date) or, on a line without one, NaN. Otherwise the rows are as
\* written, caldt as text.
read_csv(file) ==
    IF Len(file) > 0 /\ IsLong(file[1])
    THEN [i \in 1..Len(file) |->
            [caldt |-> Num(file[i].val),
             val |-> Shifted(file[i].val),
             day |-> IF IsLong(file[i]) THEN GarbledCell ELSE BlankCell]]
    ELSE [i \in 1..Len(file) |->
            [caldt |-> file[i].caldt, val |-> file[i].val, day |-> file[i].day]]

\* pd.read_csv(output_file) never raises.
read_fails_never(file) == FALSE

\* pd.read_csv(output_file) raises: a line after the first data line has
\* more fields than the line before it (ParserError: Expected 9 fields in
\* line 3, saw 10). The first data line is not held against the header.
read_fails(file) ==
    /\ Len(file) > 0
    /\ ~IsLong(file[1])
    /\ \E i \in 2..Len(file) : IsLong(file[i])

\* The frame append_to_csv has before it writes: existing rows then new rows
\* (pd.concat), or the new rows alone when the file is absent or reading it
\* raised; caldt parsed, sorted, deduplicated, caldt formatted again.
Combined(exists, file, fresh) ==
    LET concat == IF exists /\ ~read_fails(file) THEN read_csv(file) \o fresh ELSE fresh
        parsed == [i \in 1..Len(concat) |->
                     [t |-> to_datetime(concat[i].caldt),
                      val |-> concat[i].val, day |-> concat[i].day]]
        kept == Rows(drop_duplicates_last(sort_values(parsed)))
    IN  [i \in 1..Len(kept) |->
           [caldt |-> strftime(kept[i].t), val |-> kept[i].val, day |-> kept[i].day]]

\* The store file after append_to_csv(final_df, output_file) returned.
append_to_csv(exists, file, fresh) == Combined(exists, file, fresh)

-----------------------------------------------------------------------------
(* Inputs.                                                                 *)

\* A store file holding the first n bars of the timeline, as earlier runs
\* wrote them (payload version 0).
PrefixStore(n) == [i \in 1..n |-> FileRow(BarTime(i - 1), 0)]

\* A block of len consecutive freshly fetched bars starting at bar a, all of
\* payload version v, in provider order (ascending).
Block(a, len, v) == [i \in 1..len |-> NewRow(BarTime(a + i - 1), v)]

NewBlocks(v) == { Block(a, len, v) : a \in 0..MaxRows, len \in 1..MaxNew }

-----------------------------------------------------------------------------
(* SpecMerge: append_to_csv calls run to completion.                       *)

\* The variables of main()'s loop body, before any run.
\* No download is in progress: polygon_downloader has just been imported.
FetchIdle ==
    /\ clock = 0
    /\ LAST_REQUEST_TS = 0
    /\ th = <<>>
    /\ departures = <<>>

\* download_and_process_range has not been called.
RangeIdle ==
    /\ end_dt = 0
    /\ adjusted = FALSE
    /\ reports = <<>>
    /\ outcome = "none"

\* No main() loop over several symbols is running and no response is being
\* normalised.
MainIdle ==
    /\ raw = <<>>
    /\ targets = <<>>
    /\ cursor = 0
    /\ mainPc = "idle"
    /\ lastRead = [kind |-> "none", d |-> 0]
    /\ outcomes = <<>>

\* An Optional[dt_time] that is None.
NoTime == -1

\* loop_state is None. Of a loop_state that is set, next_run is the time of
\* the next scheduled run.
NoLoop == [active |-> FALSE, next_run |-> 0]

\* polygon_service has handled no request.
ServiceIdle ==
    /\ DOWNLOAD_STATUS = <<>>
    /\ hd = <<>>

\* No interactive session is open.
LoopIdle ==
    /\ wall = 0
    /\ loop_state = NoLoop
    /\ paused = FALSE
    /\ loop_start_time = NoTime
    /\ loop_end_time = NoTime
    /\ loopLog = <<>>

RunIdle ==
    /\ flow = "databento"
    /\ today = 0
    /\ rpc = "idle"
    /\ startDate = 0
    /\ endDate = 0
    /\ todayMarket = 0
    /\ requests = <<>>

\* A store file that is absent, or holds the first n bars of the timeline.
InitStore ==
    /\ \E n \in 0..MaxRows : store = PrefixStore(n)
    /\ storeExists \in BOOLEAN
    /\ (~storeExists => store = <<>>)

InitMerge ==
    /\ InitStore
    /\ newBars = <<>>
    /\ prevStore = <<>>
    /\ prevExists = FALSE
    /\ nMerges = 0
    /\ mpc = "idle"
    /\ pending = <<>>
    /\ RunIdle
    /\ FetchIdle
    /\ RangeIdle
    /\ ServiceIdle
    /\ LoopIdle
    /\ MainIdle

\* One append_to_csv(final_df, output_file) call with freshly fetched bars.
Merge ==
    /\ mpc \in {"idle", "merged", "remerged", "converted", "raised"}
    /\ nMerges < MaxMerges
    /\ \E fresh \in NewBlocks(nMerges + 1) :
          /\ newBars' = fresh
          /\ store' = append_to_csv(storeExists, store, fresh)
    /\ storeExists' = TRUE
    /\ prevStore' = store
    /\ prevExists' = storeExists
    /\ nMerges' = nMerges + 1
    /\ mpc' = "merged"
    /\ UNCHANGED <<pending, runVars, fetchVars, rangeVars, mainVars, serviceVars, loopVars>>

\* A second append_to_csv call with the same bars, against the store the
\* first call produced.
MergeAgain ==
    /\ mpc = "merged"
    /\ store' = append_to_csv(storeExists, store, newBars)
    /\ prevStore' = store
    /\ prevExists' = storeExists
    /\ mpc' = "remerged"
    /\ UNCHANGED <<storeExists, newBars, nMerges, pending, runVars, fetchVars, rangeVars, mainVars, serviceVars, loopVars>>

NextMerge == Merge \/ MergeAgain

SpecMerge == InitMerge /\ [][NextMerge]_vars

\* ---------------------------------------------------------------------------
\* SpecRepair: append_to_csv over a store file that pd.read_csv rejects.
\* ---------------------------------------------------------------------------

\* The first n bars of the timeline with line k one field too long; the
\* numbers under open are all 0 (d = 0) or differ from line to line (d = 1).
BrokenStore(n, k, d) ==
    [i \in 1..n |-> IF i = k THEN LongRow(BarTime(i - 1), d * (i - 1))
                              ELSE FileRow(BarTime(i - 1), d * (i - 1))]

InitRepair ==
    /\ \E n \in 1..MaxRows, d \in {0, 1} : \E k \in 1..n : store = BrokenStore(n, k, d)
    /\ storeExists = TRUE
    /\ newBars = <<>>
    /\ prevStore = <<>>
    /\ prevExists = FALSE
    /\ nMerges = 0
    /\ mpc = "idle"
    /\ pending = <<>>
    /\ RunIdle
    /\ FetchIdle
    /\ RangeIdle
    /\ ServiceIdle
    /\ LoopIdle
    /\ MainIdle

\* New York's offset from UTC, in minutes, at minute m (UTC): daylight time
\* from 2024-03-10 07:00 to 2024-11-03 06:00, standard time on either side
\* of it for the instants met here (1970-01-01 and 2023-12-29 onwards).
DstStart == 71 * MinutesPerDay + 7 * 60
DstEnd == 309 * MinutesPerDay + 6 * 60
utcoffset(m) == IF DstStart <= m /\ m < DstEnd THEN -(4 * 60) ELSE -(5 * 60)

\* Series.dt.tz_convert("America/New_York") of a UTC Timestamp, read as the
\* wall clock's time there.
tz_convert(ts) == IF ts = NaT THEN NaT ELSE ts + Timestamp(utcoffset(Minute(ts)))

\* fix_futures_timezone.convert_file(path, backup) raises before it writes:
\* no such file, pd.read_csv raises, a caldt that pd.to_datetime(utc=True,
\* errors="raise") cannot parse, or a backup file already in the way.
convert_raises(exists, file, bak_exists) ==
    \/ ~exists
    \/ read_fails(file)
    \/ \E i \in 1..Len(file) : read_csv(file)[i].caldt = GarbledCaldt
    \/ bak_exists

\* The file convert_file writes: the rows as read, in their order, caldt
\* taken as UTC and rewritten as New York time, day rewritten from it.
converted(file) ==
    LET df == read_csv(file)
    IN  [i \in 1..Len(df) |->
            LET timestamps_ny == tz_convert(to_datetime(df[i].caldt))
            IN  [caldt |-> strftime(timestamps_ny),
                 val |-> df[i].val,
                 day |-> IF timestamps_ny = NaT THEN BlankCell ELSE dt_date(timestamps_ny)]]

\* fix_futures_timezone.convert_file(path, backup) on the store file, between
\* two downloads: the file is overwritten with the converted rows, or the
\* call raises and the file stays.
ConvertFile ==
    /\ mpc \in {"idle", "merged", "remerged"}
    /\ \E bak_exists \in BOOLEAN :
          IF convert_raises(storeExists, store, bak_exists)
          THEN /\ mpc' = "raised"
               /\ UNCHANGED store
          ELSE /\ mpc' = "converted"
               /\ store' = converted(store)
    /\ UNCHANGED <<storeExists, newBars, prevStore, prevExists, nMerges, pending,
                   runVars, fetchVars, rangeVars, mainVars, serviceVars, loopVars>>

NextRepair == Merge \/ MergeAgain \/ ConvertFile

SpecRepair == InitRepair /\ [][NextRepair]_vars

-----------------------------------------------------------------------------
(* SpecWrite: one append_to_csv call whose combined.to_csv(output_file) is *)
(* followed row by row. to_csv opens output_file itself for writing, which *)
(* truncates it, and writes the rows into it; there is no temporary file   *)
(* and no rename. The process may die between any two steps.               *)

\* append_to_csv up to and including the open() inside to_csv.
BeginWrite ==
    /\ mpc = "idle"
    /\ nMerges < MaxMerges
    /\ \E fresh \in NewBlocks(nMerges + 1) :
          /\ newBars' = fresh
          /\ pending' = Combined(storeExists, store, fresh)
    /\ prevStore' = store
    /\ prevExists' = storeExists
    /\ store' = <<>>
    /\ storeExists' = TRUE
    /\ nMerges' = nMerges + 1
    /\ mpc' = "writing"
    /\ UNCHANGED <<runVars, fetchVars, rangeVars, mainVars, serviceVars, loopVars>>

\* One more row of the frame reaches the file.
WriteRow ==
    /\ mpc = "writing"
    /\ Len(store) < Len(pending)
    /\ store' = Append(store, pending[Len(store) + 1])
    /\ UNCHANGED <<storeExists, newBars, prevStore, prevExists, nMerges, mpc, pending, runVars, fetchVars, rangeVars, mainVars, serviceVars, loopVars>>

\* to_csv closes the file and append_to_csv returns.
FinishWrite ==
    /\ mpc = "writing"
    /\ Len(store) = Len(pending)
    /\ mpc' = "merged"
    /\ UNCHANGED <<storeExists, store, newBars, prevStore, prevExists, nMerges, pending, runVars, fetchVars, rangeVars, mainVars, serviceVars, loopVars>>

\* The process dies while append_to_csv is writing.
Crash ==
    /\ mpc = "writing"
    /\ mpc' = "crashed"
    /\ UNCHANGED <<storeExists, store, newBars, prevStore, prevExists, nMerges, pending, runVars, fetchVars, rangeVars, mainVars, serviceVars, loopVars>>

NextWrite == BeginWrite \/ WriteRow \/ FinishWrite \/ Crash

SpecWrite == InitMerge /\ [][NextWrite]_vars

-----------------------------------------------------------------------------
(* SpecRun: one symbol's pass through the loop body of main().             *)
(* Days are numbered from 2023-12-30, so that date(2024, 1, 1) is day 2.   *)

\* Latest "today" of an initial state.
MaxToday == 5

DEFAULT_START_DATE == 2
\* timedelta(days=730): the free tier's look-back, and main()'s default start.
FREE_TIER_DAYS == 730
PAID_POLYGON_SUBSCRIPTION == FALSE

None == [kind |-> "none", d |-> 0]
Date(d) == [kind |-> "date", d |-> d]

\* get_last_data_date raised RuntimeError.
Raised == [kind |-> "error", d |-> 0]

\* Faulty variant of get_last_data_date: caldt is read before day.
get_last_data_date_caldt_first(file) ==
    IF Len(file) = 0
    THEN None
    ELSE LET last_row == file[Len(file)]
         IN  IF last_row.caldt # BlankCaldt
             THEN IF last_row.caldt[1] = "str" THEN Date(last_row.caldt[2]) ELSE Raised
             ELSE IF last_row.day = BlankCell \/ last_row.day = GarbledCell
             THEN Raised
             ELSE Date(last_row.day)

\* get_last_data_date(path): None for a file without data rows; else the
\* date in the last row's day field when that is not empty, else the date
\* part of its caldt; RuntimeError when the field used does not parse or
\* both are empty.
get_last_data_date(file) ==
    IF Len(file) = 0
    THEN None
    ELSE LET last_row == file[Len(file)]
         IN  IF last_row.day # BlankCell
             THEN IF last_row.day = GarbledCell THEN Raised ELSE Date(last_row.day)
             ELSE IF last_row.caldt = BlankCaldt
             THEN Raised
             ELSE IF last_row.caldt[1] = "str"
             THEN Date(last_row.caldt[2])
             ELSE Raised

Max(a, b) == IF a >= b THEN a ELSE b

\* config.get("start_date", DEFAULT_START_DATE): no entry of DATABENTO_TARGETS
\* sets "start_date".
base_start == DEFAULT_START_DATE

\* Faulty variant of UpToDate: last_date > yesterday.
UpToDate_strict(last, day) == last.kind = "date" /\ last.d > day - 1

\* last_date is not None and last_date >= yesterday
UpToDate(last, day) == last.kind = "date" /\ last.d >= day - 1

\* Faulty variant of PlanStart: the range starts on the last stored day itself.
PlanStart_same_day(fl, last, day) ==
    IF fl = "databento"
    THEN IF last.kind = "none"
         THEN Max(base_start, DEFAULT_START_DATE)
         ELSE Max(last.d, base_start)
    ELSE IF last.kind = "none" THEN day - FREE_TIER_DAYS ELSE last.d

\* start_date of the loop body.
PlanStart(fl, last, day) ==
    IF fl = "databento"
    THEN IF last.kind = "none"
         THEN Max(base_start, DEFAULT_START_DATE)
         ELSE Max(last.d + 1, base_start)
    ELSE IF last.kind = "none" THEN day - FREE_TIER_DAYS ELSE last.d + 1

\* Last bar of the timeline a provider can hold: the last bar of MaxToday.
MaxBar == Len(DayBars) * (MaxToday + 1) - 1

\* The frames a provider's answer can normalise to: nothing, or a block of
\* consecutive bars (payload version 1).
ProviderBlocks ==
    {<<>>} \cup { Block(a, len, 1) : a \in 0..MaxBar, len \in 1..MaxNew }

\* Faulty variant of BetweenDates: the processed frame is returned unmasked.
BetweenDates_unmasked(frame, first, last) == frame

\* processed["caldt"].dt.date.between(start_date, end_date)
BetweenDates(frame, first, last) ==
    SelectSeq(frame, LAMBDA r : first <= dt_date(to_datetime(r.caldt))
                                /\ dt_date(to_datetime(r.caldt)) <= last)

\* The frames Polygon's aggregates endpoint answers a from/to range with:
\* bars of the days from .. to only.
RangeBlocks(first, last) ==
    { f \in ProviderBlocks : BetweenDates(f, first, last) = f }

InitRun ==
    /\ InitStore
    /\ newBars = <<>>
    /\ prevStore = store
    /\ prevExists = storeExists
    /\ nMerges = 0
    /\ mpc = "idle"
    /\ pending = <<>>
    /\ flow \in {"databento", "polygon"}
    /\ today \in 0..MaxToday
    /\ rpc = "start"
    /\ startDate = 0
    /\ endDate = 0
    /\ todayMarket = today
    /\ requests = <<>>
    /\ FetchIdle
    /\ RangeIdle
    /\ ServiceIdle
    /\ LoopIdle
    /\ MainIdle

TicksPerDay == 2     \* instants told apart within one day

\* datetime.combine(d, time.min).replace(tzinfo=timezone.utc)
Midnight(d) == d * TicksPerDay

\* available_end_dt.date()
DateOf(instant) == instant \div TicksPerDay

\* Faulty variant of NothingToFetch: the range is requested whatever its start.
NothingToFetch_never(start_date, end_date) == FALSE

\* "if start_date > end_date": nothing to download, continue.
NothingToFetch(start_date, end_date) == start_date > end_date

\* databento_downloader.main(): the loop body up to the download.
PlanDatabento ==
    /\ rpc = "start"
    /\ flow = "databento"
    /\ LET last == get_last_data_date(store)
           start == PlanStart(flow, last, today)
       IN  IF ~storeExists \/ UpToDate(last, today)
           THEN rpc' = "skipped" /\ UNCHANGED <<startDate, endDate>>
           ELSE /\ startDate' = start
                /\ endDate' = today
                /\ rpc' = IF NothingToFetch(start, today) THEN "skipped" ELSE "planned"
    /\ UNCHANGED <<mergeVars, flow, today, todayMarket, requests, fetchVars, rangeVars, mainVars, serviceVars, loopVars>>

\* polygon_downloader.main(): the loop body up to the download. A store file
\* that does not exist is not among find_existing_capitalized_files.
PlanPolygon ==
    /\ rpc = "start"
    /\ flow = "polygon"
    /\ LET last == get_last_data_date(store)
           start == PlanStart(flow, last, today)
       IN  IF ~storeExists \/ UpToDate(last, today)
           THEN rpc' = "skipped" /\ UNCHANGED <<startDate, endDate>>
           ELSE /\ startDate' = start
                /\ endDate' = today
                /\ rpc' = IF NothingToFetch(start, today) THEN "skipped" ELSE "planned"
    /\ UNCHANGED <<mergeVars, flow, today, todayMarket, requests, fetchVars, rangeVars, mainVars, serviceVars, loopVars>>

\* Faulty variant of BeyondFreeTier: the look-back is one day longer.
BeyondFreeTier_late(start_dt, today_market) ==
    ~PAID_POLYGON_SUBSCRIPTION /\ start_dt < today_market - FREE_TIER_DAYS - 1

\* "if not PAID_POLYGON_SUBSCRIPTION: ... if start_dt < two_years_ago", with
\* two_years_ago = today_market - timedelta(days=730).
BeyondFreeTier(start_dt, today_market) ==
    ~PAID_POLYGON_SUBSCRIPTION /\ start_dt < today_market - FREE_TIER_DAYS

\* download_and_merge_data up to process_data: the free-tier check against
\* a market date read afresh (midnight may have passed since main() read
\* today), then the requests for the range and the normalised rows; or an
\* exception leaves get_polygon_data (the sleep after a 429, data.get) or
\* process_data (KeyError), and with it the call and main().
DownloadPolygon ==
    /\ rpc = "planned"
    /\ flow = "polygon"
    /\ \E tm \in {today, today + 1}, raises \in BOOLEAN :
          /\ todayMarket' = tm
          /\ IF BeyondFreeTier(startDate, tm)
             THEN rpc' = "rejected" /\ UNCHANGED <<requests, newBars>>
             ELSE /\ requests' = <<[start |-> startDate, end |-> endDate]>>
                  /\ IF raises
                     THEN rpc' = "raised" /\ UNCHANGED newBars
                     ELSE /\ newBars' \in RangeBlocks(startDate, endDate)
                          /\ rpc' = "fetched"
    /\ UNCHANGED <<storeExists, store, prevStore, prevExists, nMerges, mpc, pending,
                   flow, today, startDate, endDate, fetchVars, rangeVars, mainVars, serviceVars, loopVars>>

\* Faulty variant of AppendNewRows: append_to_csv is called whatever came back.
AppendNewRows_always ==
    /\ rpc = "fetched"
    /\ store' = append_to_csv(storeExists, store, newBars)
    /\ storeExists' = TRUE
    /\ nMerges' = nMerges + 1
    /\ rpc' = "done"
    /\ UNCHANGED <<newBars, prevStore, prevExists, mpc, pending,
                   flow, today, startDate, endDate, todayMarket, requests, fetchVars, rangeVars, mainVars, serviceVars, loopVars>>

\* The end of the run: append_to_csv, unless no rows came back.
AppendNewRows ==
    /\ rpc = "fetched"
    /\ IF newBars = <<>>
       THEN UNCHANGED <<store, storeExists, nMerges>>
       ELSE /\ store' = append_to_csv(storeExists, store, newBars)
            /\ storeExists' = TRUE
            /\ nMerges' = nMerges + 1
    /\ rpc' = "done"
    /\ UNCHANGED <<newBars, prevStore, prevExists, mpc, pending,
                   flow, today, startDate, endDate, todayMarket, requests, fetchVars, rangeVars, mainVars, serviceVars, loopVars>>


\* ---------------------------------------------------------------------------
\* SpecMain: main() of either downloader over several symbols, one loop body
\* after the other. Only the last line of each store file matters to it.
\* ---------------------------------------------------------------------------

NSymbols == 2        \* store files main() loops over

\* The days a last line can name.
LastDays == {0, MaxToday - 2, MaxToday - 1}

DayCells == {BlankCell, GarbledCell} \cup LastDays

CaldtCells == {BlankCaldt, GarbledCaldt} \cup { Str(d, DayBars[1]) : d \in LastDays }

\* A store file as main() meets it: absent (Databento's fixed targets only),
\* without data rows, or ending in some last line.
Absent == [exists |-> FALSE, file |-> <<>>]
Present(file) == [exists |-> TRUE, file |-> file]

TargetFiles ==
    {Absent, Present(<<>>)}
        \cup { Present(<<[caldt |-> c, val |-> 0, day |-> dc]>>) :
                  c \in CaldtCells, dc \in DayCells }

\* What a download can come to: rows to append, no rows, or a response that
\* normalisation rejects (process_databento_frame raises RuntimeError,
\* process_data raises KeyError on a missing column).
Downloads == {"rows", "empty", "schema_error"}

\* The rows a download of start_date .. end_date brings when it brings any:
\* the first bar of its first day, or of its last.
MainRows(start_date, end_date) ==
    { Block(Len(DayBars) * d, 1, 1) : d \in {start_date, end_date} }

InitMain ==
    /\ storeExists = FALSE
    /\ store = <<>>
    /\ newBars = <<>>
    /\ prevStore = <<>>
    /\ prevExists = FALSE
    /\ nMerges = 0
    /\ mpc = "idle"
    /\ pending = <<>>
    /\ flow \in {"databento", "polygon"}
    /\ today = MaxToday
    /\ rpc = "idle"
    /\ startDate = 0
    /\ endDate = 0
    /\ todayMarket = today
    /\ requests = <<>>
    /\ FetchIdle
    /\ RangeIdle
    /\ ServiceIdle
    /\ LoopIdle
    /\ raw = <<>>
    /\ targets \in [1..NSymbols -> TargetFiles]
    /\ flow = "polygon" => \A i \in 1..NSymbols : targets[i].exists
    /\ cursor = 1
    /\ mainPc = "top"
    /\ lastRead = None
    /\ outcomes = <<>>

\* The loop body up to last_date: a Databento target without a file is
\* skipped; get_last_data_date returns, or raises out of main().
MainReadLast ==
    /\ mainPc = "top"
    /\ cursor <= Len(targets)
    /\ IF flow = "databento" /\ ~targets[cursor].exists
       THEN /\ outcomes' = Append(outcomes, "absent")
            /\ cursor' = cursor + 1
            /\ UNCHANGED <<mainPc, lastRead>>
       ELSE LET last_date == get_last_data_date(targets[cursor].file)
            IN  IF last_date.kind = "error"
                THEN /\ mainPc' = "raised"
                     /\ outcomes' = Append(outcomes, "malformed_store")
                     /\ UNCHANGED <<cursor, lastRead>>
                ELSE /\ mainPc' = "plan"
                     /\ lastRead' = last_date
                     /\ UNCHANGED <<cursor, outcomes>>
    /\ UNCHANGED <<mergeVars, runVars, fetchVars, rangeVars, serviceVars, loopVars, raw, targets>>

\* The loop body from the up-to-date test to the range test.
MainPlan ==
    /\ mainPc = "plan"
    /\ IF UpToDate(lastRead, today)
       THEN /\ outcomes' = Append(outcomes, "up_to_date")
            /\ cursor' = cursor + 1
            /\ mainPc' = "top"
       ELSE IF PlanStart(flow, lastRead, today) > today
       THEN /\ outcomes' = Append(outcomes, "nothing_new")
            /\ cursor' = cursor + 1
            /\ mainPc' = "top"
       ELSE /\ mainPc' = "download"
            /\ UNCHANGED <<cursor, outcomes>>
    /\ UNCHANGED <<mergeVars, runVars, fetchVars, rangeVars, serviceVars, loopVars, raw, targets, lastRead>>

\* The download and the append of the loop body: normalisation of the
\* response may raise out of main(); rows that came back are merged into
\* the symbol's store file by append_to_csv.
MainDownload ==
    /\ mainPc = "download"
    /\ \E d \in Downloads :
         IF d = "schema_error"
         THEN /\ mainPc' = "raised"
              /\ outcomes' = Append(outcomes, d)
              /\ UNCHANGED <<cursor, targets>>
         ELSE IF d = "empty"
         THEN /\ mainPc' = "top"
              /\ outcomes' = Append(outcomes, d)
              /\ cursor' = cursor + 1
              /\ UNCHANGED targets
         ELSE \E rows \in MainRows(PlanStart(flow, lastRead, today), today) :
              /\ mainPc' = "top"
              /\ outcomes' = Append(outcomes, d)
              /\ cursor' = cursor + 1
              /\ targets' = [targets EXCEPT ![cursor] =
                                Present(append_to_csv(TRUE, @.file, rows))]
    /\ UNCHANGED <<mergeVars, runVars, fetchVars, rangeVars, serviceVars, loopVars, raw, lastRead>>

\* The for loop is exhausted and main() returns.
MainReturn ==
    /\ mainPc = "top"
    /\ cursor > Len(targets)
    /\ mainPc' = "finished"
    /\ UNCHANGED <<mergeVars, runVars, fetchVars, rangeVars, serviceVars, loopVars, raw, targets, cursor,
                   lastRead, outcomes>>

NextMain == MainReadLast \/ MainPlan \/ MainDownload \/ MainReturn

SpecMain == InitMain /\ [][NextMain]_vars

\* ---------------------------------------------------------------------------
\* SpecRange: the Databento run with download_and_process_range() taken
\* request by request.
\*
\* Instants are counted in steps of 1/TicksPerDay day from the midnight (UTC)
\* of day 0; a request is <<start date, end instant>>.
\* ---------------------------------------------------------------------------

MaxReports == 2      \* availability errors the provider raises in one call

\* The text between the quotes of an "available up to '...'" message: an
\* instant, or text datetime.fromisoformat rejects.
NoInstant == -1
Boundaries == (0..Midnight(MaxToday + 2)) \cup {NoInstant}

\* What process_databento_frame makes of a provider's answer: a frame, or
\* RuntimeError (no timestamp column, or a timestamp that does not parse).
ProcessedFrames ==
    { [kind |-> "frame", rows |-> f] : f \in ProviderBlocks }
        \cup { [kind |-> "error", rows |-> <<>>] }

\* The except branch for data_end_after_available_end without the test that
\* gives up after a narrowing: every boundary from the start date on is taken.
Narrowing_never_stuck(start_date, end, adj, boundary) ==
    IF boundary = NoInstant
    THEN [next |-> "raised", end_dt |-> end]
    ELSE IF DateOf(boundary) < start_date
    THEN [next |-> "unreachable", end_dt |-> end]
    ELSE [next |-> "retry", end_dt |-> boundary]

\* The except branch for data_end_after_available_end, never giving up on a
\* boundary before the start date.
Narrowing_start_unchecked(start_date, end, adj, boundary) ==
    IF boundary = NoInstant
    THEN [next |-> "raised", end_dt |-> end]
    ELSE IF adj /\ boundary >= end
    THEN [next |-> "stuck", end_dt |-> end]
    ELSE [next |-> "retry", end_dt |-> boundary]

\* The except branch for data_end_after_available_end with a boundary in
\* the message: ValueError leaves the call when the boundary is no instant;
\* give up when the boundary is before the start date, or when the end was
\* narrowed before and the boundary is not below it; otherwise take the
\* boundary as the new end and go round again.
Narrowing(start_date, end, adj, boundary) ==
    IF boundary = NoInstant
    THEN [next |-> "raised", end_dt |-> end]
    ELSE IF DateOf(boundary) < start_date
    THEN [next |-> "unreachable", end_dt |-> end]
    ELSE IF adj /\ boundary >= end
    THEN [next |-> "stuck", end_dt |-> end]
    ELSE [next |-> "retry", end_dt |-> boundary]

InitRange ==
    /\ InitRun
    /\ flow = "databento"

\* Faulty variant of BeginRange: the end is the midnight that begins end_date.
BeginRange_end_date_excluded ==
    /\ rpc = "planned"
    /\ flow = "databento"
    /\ end_dt' = Midnight(endDate)
    /\ adjusted' = FALSE
    /\ rpc' = "requesting"
    /\ UNCHANGED <<mergeVars, flow, today, startDate, endDate, todayMarket, requests,
                   fetchVars, reports, outcome, mainVars, serviceVars, loopVars>>

\* download_and_process_range() is called: end_dt is the midnight after
\* end_date, adjusted = False.
BeginRange ==
    /\ rpc = "planned"
    /\ flow = "databento"
    /\ end_dt' = Midnight(endDate + 1)
    /\ adjusted' = FALSE
    /\ rpc' = "requesting"
    /\ UNCHANGED <<mergeVars, flow, today, startDate, endDate, todayMarket, requests,
                   fetchVars, reports, outcome, mainVars, serviceVars, loopVars>>

\* client.timeseries.get_range(start=start_str, end=end_arg); the request is
\* written to requests when observed.
GetRange(observed) ==
    /\ rpc = "requesting"
    /\ requests' = IF observed
                   THEN Append(requests, [start |-> startDate, end |-> end_dt])
                   ELSE requests
    /\ rpc' = "asked"
    /\ UNCHANGED <<mergeVars, flow, today, startDate, endDate, todayMarket,
                   fetchVars, rangeVars, mainVars, serviceVars, loopVars>>

RequestRange == GetRange(TRUE)

\* The request succeeds: the rows of the answer, normalised, that lie in
\* start_date .. end_date; or process_databento_frame raises RuntimeError,
\* which leaves the call and main().
RangeAnswered ==
    /\ rpc = "asked"
    /\ \E processed \in ProcessedFrames :
          IF processed.kind = "error"
          THEN /\ outcome' = "raised"
               /\ rpc' = "raised"
               /\ UNCHANGED newBars
          ELSE /\ newBars' = BetweenDates(processed.rows, startDate, endDate)
               /\ outcome' = "answered"
               /\ rpc' = "fetched"
    /\ UNCHANGED <<storeExists, store, prevStore, prevExists, nMerges, mpc, pending,
                   flow, today, startDate, endDate, todayMarket, requests,
                   fetchVars, end_dt, adjusted, reports, mainVars, serviceVars, loopVars>>

\* The request fails with data_end_after_available_end and a boundary; when
\* observed the boundary is written to reports, of which there are at most
\* MaxReports.
AvailabilityError(observed) ==
    /\ rpc = "asked"
    /\ observed => Len(reports) < MaxReports
    /\ \E boundary \in Boundaries :
         LET n == Narrowing(startDate, end_dt, adjusted, boundary)
         IN  /\ reports' = IF observed THEN Append(reports, boundary) ELSE reports
             /\ IF n.next = "retry"
                THEN /\ end_dt' = n.end_dt
                     /\ adjusted' = TRUE
                     /\ rpc' = "requesting"
                     /\ UNCHANGED <<newBars, outcome>>
                ELSE IF n.next = "raised"
                THEN /\ outcome' = "raised"
                     /\ rpc' = "raised"
                     /\ UNCHANGED <<newBars, end_dt, adjusted>>
                ELSE /\ newBars' = <<>>
                     /\ outcome' = n.next
                     /\ rpc' = "fetched"
                     /\ UNCHANGED <<end_dt, adjusted>>
    /\ UNCHANGED <<storeExists, store, prevStore, prevExists, nMerges, mpc, pending,
                   flow, today, startDate, endDate, todayMarket, requests, fetchVars, mainVars, serviceVars, loopVars>>

RangeUnavailable == AvailabilityError(TRUE)

\* The request fails in any other way: an empty frame is returned.
RangeFailed ==
    /\ rpc = "asked"
    /\ newBars' = <<>>
    /\ outcome' = "failed"
    /\ rpc' = "fetched"
    /\ UNCHANGED <<storeExists, store, prevStore, prevExists, nMerges, mpc, pending,
                   flow, today, startDate, endDate, todayMarket, requests,
                   fetchVars, end_dt, adjusted, reports, mainVars, serviceVars, loopVars>>

NextRange ==
    \/ PlanDatabento
    \/ BeginRange
    \/ RequestRange
    \/ RangeAnswered
    \/ RangeUnavailable
    \/ RangeFailed
    \/ AppendNewRows

SpecRange == InitRange /\ [][NextRange]_vars

\* SpecRun: the loop body of either main(); Databento's download is the
\* range call above, Polygon's is DownloadPolygon.
NextRun ==
    \/ PlanDatabento
    \/ PlanPolygon
    \/ BeginRange
    \/ RequestRange
    \/ RangeAnswered
    \/ RangeUnavailable
    \/ RangeFailed
    \/ DownloadPolygon
    \/ AppendNewRows

SpecRun == InitRun /\ [][NextRun]_vars

\* SpecRangeLive: the same run with no limit on the availability errors the
\* provider raises; requests and reports are not written down, so that a
\* request loop that goes on for ever is a cycle of states. The call keeps
\* running: a request that is due is sent, and a request that was sent is
\* answered or fails.
RequestRangeUnobserved == GetRange(FALSE)

RangeUnavailableUnobserved == AvailabilityError(FALSE)

NextRangeLive ==
    \/ PlanDatabento
    \/ BeginRange
    \/ RequestRangeUnobserved
    \/ RangeAnswered
    \/ RangeUnavailableUnobserved
    \/ RangeFailed
    \/ AppendNewRows

RangeReplied == RangeFailed \/ RangeUnavailableUnobserved \/ RangeAnswered

SpecRangeLive ==
    /\ InitRange
    /\ [][NextRangeLive]_vars
    /\ WF_vars(RequestRangeUnobserved)
    /\ WF_vars(RangeReplied)

\* ---------------------------------------------------------------------------
\* The Polygon fetcher: respect_polygon_rate_limit(), get_polygon_data() and
\* the batch loop of download_and_merge_data().
\*
\* Time is the monotonic clock in whole seconds. Computation takes no time:
\* the clock advances only while every thread of control is either outside a
\* download, asleep, or waiting for the provider's response.
\* ---------------------------------------------------------------------------

MaxClock == 72       \* the clock stops advancing here
ClockStep == 6       \* granularity of the clock
MaxBatches == 2      \* cursor pages the provider offers in one download
MaxDownloads == 2    \* downloads started by one thread of control

FREE_TIER_REQUEST_INTERVAL == 12
RATE_LIMIT_INTERVAL == IF PAID_POLYGON_SUBSCRIPTION THEN 0 ELSE FREE_TIER_REQUEST_INTERVAL
MAX_RETRIES == 5
MAX_BATCHES == 500

Max3(a, b, c) == Max(a, Max(b, c))

\* "x or y" on numbers.
Or(x, y) == IF x # 0 THEN x ELSE y

\* The Retry-After header of a 429 response: absent, a number of seconds,
\* text that float() rejects, or text that float() takes for nan or inf
\* ("nan", "inf", "1e400").
NoHeader == [kind |-> "absent", secs |-> 0]
BadHeader == [kind |-> "invalid", secs |-> 0]
NonFiniteHeader == [kind |-> "nonfinite", secs |-> 0]
Seconds(n) == [kind |-> "number", secs |-> n]
RetryAfterHeaders == {NoHeader, BadHeader, NonFiniteHeader, Seconds(2), Seconds(3 * ClockStep)}

\* time_module.sleep(retry_after) raises: max(nan, 12.0, 1.0) is nan and
\* max(inf, 12.0, 1.0) is inf; sleep rejects the first with ValueError and
\* the second with OverflowError, and nothing catches either.
SleepRaises(header) == header.kind = "nonfinite"

\* The sleep after a 429 with the Retry-After header left unread.
retry_after_header_unread(header) ==
    Max3(Or(RATE_LIMIT_INTERVAL, FREE_TIER_REQUEST_INTERVAL), Or(RATE_LIMIT_INTERVAL, 0), 1)

\* The sleep get_polygon_data() takes after a 429.
retry_after(header) ==
    LET parsed == IF header.kind = "number"
                  THEN header.secs
                  ELSE Or(RATE_LIMIT_INTERVAL, FREE_TIER_REQUEST_INTERVAL)
    IN  Max3(parsed, Or(RATE_LIMIT_INTERVAL, 0), 1)

\* wait of respect_polygon_rate_limit(), with the operands swapped.
wait_swapped(now, last) == (now - last) - RATE_LIMIT_INTERVAL

\* wait of respect_polygon_rate_limit().
wait(now, last) == RATE_LIMIT_INTERVAL - (now - last)

\* "while attempt < MAX_RETRIES".
RetryAllowed(attempt) == attempt < MAX_RETRIES

\* A 429 answer with the given Retry-After header.
Limited(h) ==
    [status |-> 429, header |-> h, body |-> "none", results |-> FALSE,
     next_url |-> FALSE]

\* A 200 answer whose body is JSON but no object ("[1, 2]", "null", "3").
NotAnObject ==
    [status |-> 200, header |-> NoHeader, body |-> "other", results |-> FALSE,
     next_url |-> FALSE]

\* A 200 answer whose body is an object: with or without results, with or
\* without next_url.
Page(r, n) ==
    [status |-> 200, header |-> NoHeader, body |-> "object", results |-> r,
     next_url |-> n]

\* A request that failed, an error status, or a body that is not JSON.
Failed ==
    [status |-> 500, header |-> NoHeader, body |-> "none", results |-> FALSE,
     next_url |-> FALSE]

\* What the provider can answer to one request.
Responses ==
    { Limited(h) : h \in RetryAfterHeaders }
    \cup { Page(r, n) : r, n \in BOOLEAN }
    \cup { NotAnObject, Failed }

\* "if response.status_code == 429", with every failure taken for a rate limit.
Retried_any_failure(status) == status # 200

\* "if response.status_code == 429": the one answer that is retried.
Retried(status) == status = 429

\* The loop without its cap test.
OverCap_never(batch_count) == FALSE

\* The loop's cap test, one batch late.
OverCap_late(batch_count) == batch_count > MAX_BATCHES + 1

\* "if batch_count > MAX_BATCHES".
OverCap(batch_count) == batch_count > MAX_BATCHES

\* The batch loop's two breaks, without the break on a missing cursor.
StopsAfter_empty_only(results, next_url) == ~results

\* The batch loop's two breaks: "if not results" and "if not next_url".
StopsAfter(results, next_url) == ~results \/ ~next_url

\* Merging only what a loop that ended on a good answer has collected.
MergesCollected_complete_only(status, pages) == pages > 0 /\ status = 200

\* "if not all_raw_data: return None": whatever ended the loop, the pages
\* collected so far go on to process_data and append_to_csv.
MergesCollected(status, pages) == pages > 0

\* The provider's bars: those of the timeline and one after hours, at 20:00.
RawDayBars == DayBars \o <<20 * 60>>

RawTime(i) == (i \div Len(RawDayBars)) * MinutesPerDay + RawDayBars[(i % Len(RawDayBars)) + 1]

\* all_raw_data after n pages: page k of a download holds the k-th bar the
\* provider has (payload version 1), pages in ascending order.
all_raw_data(n) == [k \in 1..n |-> [t |-> RawTime(k), val |-> 1]]

\* between_time("04:00", "19:59"); NaT is in no time window.
InMarketHours(t) ==
    t # NaT /\ 4 * 60 <= t % MinutesPerDay /\ t % MinutesPerDay <= 19 * 60 + 59

\* The record has a timestamp under its key.
HasKey(r) == "t" \in DOMAIN r

\* pd.DataFrame(results)["t"], coerced: a record without the key has NaN in
\* the column, which is NaT.
Coerced(results) ==
    [i \in 1..Len(results) |->
        [t |-> IF HasKey(results[i]) THEN results[i].t ELSE NaT,
         val |-> results[i].val]]

\* process_data(results): an empty frame for no records; KeyError (df["t"])
\* when no record has the key "t"; else timestamps coerced, sorted by time
\* (NaT last), the bars of 04:00..19:59 kept, caldt and day added.
process_data(results) ==
    IF results = <<>>
    THEN [kind |-> "frame", rows |-> <<>>]
    ELSE IF \A i \in 1..Len(results) : ~HasKey(results[i])
    THEN [kind |-> "error", rows |-> <<>>]
    ELSE LET kept == SelectSeq(sort_values(Coerced(results)), LAMBDA r : InMarketHours(r.t))
         IN  [kind |-> "frame",
              rows |-> [i \in 1..Len(kept) |-> NewRow(kept[i].t, kept[i].val)]]

\* process_databento_frame(df): an empty frame for no records; RuntimeError
\* when there is no timestamp column or some timestamp does not parse; else
\* one normalised row for each record, in the order received.
process_databento_frame(df) ==
    IF df = <<>>
    THEN [kind |-> "frame", rows |-> <<>>]
    ELSE IF \E i \in 1..Len(df) : Coerced(df)[i].t = NaT
    THEN [kind |-> "error", rows |-> <<>>]
    ELSE [kind |-> "frame", rows |-> [i \in 1..Len(df) |-> NewRow(df[i].t, df[i].val)]]

\* A thread of control outside any download.
Outside ==
    [pc |-> "outside", left |-> 0, batch_count |-> 0, next_url |-> FALSE,
     attempt |-> 0, now |-> 0, wake |-> 0, sent |-> 0, limited |-> 0,
     results |-> FALSE, status |-> 0, since |-> 0, hint |-> 0, pages |-> 0,
     combined |-> <<>>]

Threads == DOMAIN th

\* A thread whose download raised has left it for good.
Blocked == {"outside", "sleep_limit", "sleep_429", "awaiting", "raised"}

\* n threads of control, each with a number of symbols left to download,
\* the next into a store file that holds the first bar of the timeline; the
\* process has been up for one of the times in uptimes.
InitFetch(n, symbols, uptimes) ==
    /\ storeExists = TRUE
    /\ store = PrefixStore(1)
    /\ newBars = <<>>
    /\ prevStore = store
    /\ prevExists = TRUE
    /\ nMerges = 0
    /\ mpc = "idle"
    /\ pending = <<>>
    /\ RunIdle
    /\ RangeIdle
    /\ ServiceIdle
    /\ LoopIdle
    /\ MainIdle
    /\ clock \in uptimes
    /\ LAST_REQUEST_TS = 0
    /\ th = [t \in 1..n |-> [Outside EXCEPT !.left = symbols]]
    /\ departures = <<>>

\* The script's process: one thread of control that goes through the
\* symbols one after the other.
InitFetch1 == InitFetch(1, MaxDownloads, {0, ClockStep, 2 * ClockStep})

\* polygon_service: ThreadingHTTPServer runs each request in a thread of its
\* own, which downloads the one symbol of the request.
InitFetch2 == InitFetch(2, 1, {MaxClock - 4 * ClockStep})

\* download_and_merge_data() starts: all_raw_data = [], next_url = None,
\* batch_count = 0.
StartDownload(t) ==
    /\ th[t].pc = "outside"
    /\ th[t].left > 0
    /\ th' = [th EXCEPT ![t] = [@ EXCEPT !.pc = "batch", !.left = @ - 1,
                                         !.batch_count = 0, !.next_url = FALSE,
                                         !.pages = 0, !.status = 0]]
    /\ prevStore' = store
    /\ prevExists' = storeExists
    /\ newBars' = <<>>
    /\ UNCHANGED <<clock, LAST_REQUEST_TS, departures, storeExists, store, nMerges,
                   mpc, pending, runVars, rangeVars, mainVars, serviceVars, loopVars>>

\* The head of the batch loop: count the batch, stop at the cap, otherwise
\* call get_polygon_data(url=next_url), which starts with attempt = 0.
NextBatch(t) ==
    /\ th[t].pc = "batch"
    /\ th' = [th EXCEPT ![t] =
                IF OverCap(@.batch_count + 1)
                THEN [@ EXCEPT !.pc = "collected", !.batch_count = @ + 1]
                ELSE [@ EXCEPT !.pc = "loop", !.batch_count = @ + 1,
                               !.attempt = 0, !.sent = 0, !.limited = 0,
                               !.results = FALSE]]
    /\ UNCHANGED <<clock, LAST_REQUEST_TS, departures, mergeVars, runVars, rangeVars, mainVars, serviceVars, loopVars>>

\* The retry loop's test. On entry to the body: attempt += 1, then
\* respect_polygon_rate_limit() reads the clock and _LAST_REQUEST_TS and either
\* goes to sleep or goes on to stamp. When the test fails the call returns
\* ([], None).
Attempt(t) ==
    /\ th[t].pc = "loop"
    /\ th' = [th EXCEPT ![t] =
                IF ~RetryAllowed(@.attempt)
                THEN [@ EXCEPT !.pc = "returned", !.results = FALSE, !.next_url = FALSE,
                               !.since = 0, !.hint = 0]
                ELSE IF RATE_LIMIT_INTERVAL <= 0
                THEN [@ EXCEPT !.pc = "send", !.attempt = @ + 1]
                ELSE IF wait(clock, LAST_REQUEST_TS) > 0
                THEN [@ EXCEPT !.pc = "sleep_limit", !.attempt = @ + 1, !.now = clock,
                               !.wake = clock + wait(clock, LAST_REQUEST_TS)]
                ELSE [@ EXCEPT !.pc = "stamp", !.attempt = @ + 1, !.now = clock]]
    /\ UNCHANGED <<clock, LAST_REQUEST_TS, departures, mergeVars, runVars, rangeVars, mainVars, serviceVars, loopVars>>

\* time_module.sleep(wait) returns, and now = time_module.monotonic().
WakeLimit(t) ==
    /\ th[t].pc = "sleep_limit"
    /\ clock >= th[t].wake
    /\ th' = [th EXCEPT ![t] = [@ EXCEPT !.pc = "stamp", !.now = clock, !.wake = 0]]
    /\ UNCHANGED <<clock, LAST_REQUEST_TS, departures, mergeVars, runVars, rangeVars, mainVars, serviceVars, loopVars>>

\* _LAST_REQUEST_TS = now, the last statement of respect_polygon_rate_limit().
Stamp(t) ==
    /\ th[t].pc = "stamp"
    /\ LAST_REQUEST_TS' = th[t].now
    /\ th' = [th EXCEPT ![t] = [@ EXCEPT !.pc = "send", !.now = 0]]
    /\ UNCHANGED <<clock, departures, mergeVars, runVars, rangeVars, mainVars, serviceVars, loopVars>>

\* requests.get(...): the request leaves, for the url the call was given.
Send(t) ==
    /\ th[t].pc = "send"
    /\ departures' = IF Len(departures) < 2
                     THEN Append(departures, clock)
                     ELSE <<departures[2], clock>>
    /\ th' = [th EXCEPT ![t] = [@ EXCEPT !.pc = "awaiting", !.sent = @ + 1,
                                         !.since = 0, !.hint = 0]]
    /\ UNCHANGED <<clock, LAST_REQUEST_TS, mergeVars, runVars, rangeVars, mainVars, serviceVars, loopVars>>

\* The response arrives. 429: sleep retry_after and go round the loop again
\* (since and hint note when the 429 came and the seconds its Retry-After
\* asked for), unless the sleep raises. A failed request, an error status or
\* a body that is not JSON: return ([], None). A body that is JSON but no
\* object: data.get raises AttributeError. Otherwise return (results,
\* next_url).
Respond(t) ==
    /\ th[t].pc = "awaiting"
    /\ \E r \in Responses :
        /\ (r.next_url => th[t].batch_count < MaxBatches)
        /\ th' = [th EXCEPT ![t] =
                    IF Retried(r.status)
                    THEN IF SleepRaises(r.header)
                         THEN [@ EXCEPT !.pc = "raised", !.limited = @ + 1,
                                        !.status = r.status]
                         ELSE [@ EXCEPT !.pc = "sleep_429", !.limited = @ + 1,
                                        !.status = r.status,
                                        !.since = clock,
                                        !.hint = IF r.header.kind = "number"
                                                 THEN r.header.secs ELSE 0,
                                        !.wake = clock + retry_after(r.header)]
                    ELSE IF r.status # 200
                    THEN [@ EXCEPT !.pc = "returned", !.status = r.status,
                                   !.results = FALSE, !.next_url = FALSE]
                    ELSE IF r.body # "object"
                    THEN [@ EXCEPT !.pc = "raised", !.status = r.status]
                    ELSE [@ EXCEPT !.pc = "returned", !.status = r.status,
                                   !.results = r.results, !.next_url = r.next_url]]
    /\ UNCHANGED <<clock, LAST_REQUEST_TS, departures, mergeVars, runVars, rangeVars, mainVars, serviceVars, loopVars>>

\* time_module.sleep(retry_after) returns; "continue".
Wake429(t) ==
    /\ th[t].pc = "sleep_429"
    /\ clock >= th[t].wake
    /\ th' = [th EXCEPT ![t] = [@ EXCEPT !.pc = "loop", !.wake = 0]]
    /\ UNCHANGED <<clock, LAST_REQUEST_TS, departures, mergeVars, runVars, rangeVars, mainVars, serviceVars, loopVars>>

\* Back in the batch loop with (results, next_url): break on an empty batch,
\* else extend all_raw_data, then break on a missing cursor or go round again.
AfterBatch(t) ==
    /\ th[t].pc = "returned"
    /\ th' = [th EXCEPT ![t] =
                IF StopsAfter(@.results, @.next_url)
                THEN [@ EXCEPT !.pc = "collected", !.attempt = 0, !.sent = 0,
                               !.limited = 0,
                               !.pages = IF th[t].results THEN @ + 1 ELSE @]
                ELSE [@ EXCEPT !.pc = "batch", !.attempt = 0, !.sent = 0,
                               !.limited = 0, !.pages = @ + 1]]
    /\ UNCHANGED <<clock, LAST_REQUEST_TS, departures, mergeVars, runVars, rangeVars, mainVars, serviceVars, loopVars>>

\* Faulty variant of FinishDownload: append_to_csv inside the batch loop, which
\* then goes round again.
FinishDownload_inside_loop(t) ==
    /\ th[t].pc = "collected"
    /\ Threads = {t}
    /\ LET final_df == process_data(all_raw_data(th[t].pages))
           collected == MergesCollected(th[t].status, th[t].pages)
       IN  /\ IF ~collected \/ final_df.rows = <<>>
              THEN UNCHANGED <<store, storeExists, newBars>>
              ELSE /\ store' = append_to_csv(storeExists, store, final_df.rows)
                   /\ storeExists' = TRUE
                   /\ newBars' = final_df.rows
           /\ th' = [th EXCEPT ![t] =
                       IF collected /\ final_df.kind = "error"
                       THEN [@ EXCEPT !.pc = "raised"]
                       ELSE IF @.batch_count < MaxBatches
                       THEN [@ EXCEPT !.pc = "batch"]
                       ELSE [@ EXCEPT !.pc = "outside", !.results = FALSE,
                                      !.next_url = FALSE]]
    /\ UNCHANGED <<clock, LAST_REQUEST_TS, departures, prevStore, prevExists,
                   nMerges, mpc, pending, runVars, rangeVars, mainVars, serviceVars, loopVars>>

\* After the batch loop: nothing collected returns None; process_data may
\* raise KeyError, which leaves the call and main(); nothing left after
\* process_data returns None; otherwise append_to_csv(final_df, output_file).
\* One step in a process whose only thread of control is t (the script):
\* nothing else runs between the statements.
FinishDownload(t) ==
    /\ th[t].pc = "collected"
    /\ Threads = {t}
    /\ LET final_df == process_data(all_raw_data(th[t].pages))
           collected == MergesCollected(th[t].status, th[t].pages)
       IN  /\ IF ~collected \/ final_df.rows = <<>>
              THEN UNCHANGED <<store, storeExists, newBars>>
              ELSE /\ store' = append_to_csv(storeExists, store, final_df.rows)
                   /\ storeExists' = TRUE
                   /\ newBars' = final_df.rows
           /\ th' = [th EXCEPT ![t] =
                       IF collected /\ final_df.kind = "error"
                       THEN [@ EXCEPT !.pc = "raised"]
                       ELSE [@ EXCEPT !.pc = "outside", !.results = FALSE,
                                      !.next_url = FALSE]]
    /\ UNCHANGED <<clock, LAST_REQUEST_TS, departures, prevStore, prevExists,
                   nMerges, mpc, pending, runVars, rangeVars, mainVars, serviceVars, loopVars>>

\* The clock moves on while nobody is computing.
Tick ==
    /\ clock < MaxClock
    /\ Threads # {}
    /\ \A t \in Threads : th[t].pc \in Blocked
    /\ clock' = clock + ClockStep
    /\ UNCHANGED <<LAST_REQUEST_TS, th, departures, mergeVars, runVars, rangeVars, mainVars, serviceVars, loopVars>>

\* The same statements in a process with other threads (polygon_service),
\* which may run between them. First: up to the frame append_to_csv has ready
\* before combined.to_csv: process_data, pd.read_csv of the file as it is now
\* (a file another thread has opened for writing and not yet written reads
\* as empty: EmptyDataError, "overwriting with new data"), concat, sort,
\* drop_duplicates.
ReadStore(t) ==
    /\ th[t].pc = "collected"
    /\ LET final_df == process_data(all_raw_data(th[t].pages))
           collected == MergesCollected(th[t].status, th[t].pages)
       IN  th' = [th EXCEPT ![t] =
                    IF collected /\ final_df.kind = "error"
                    THEN [@ EXCEPT !.pc = "raised"]
                    ELSE IF ~collected \/ final_df.rows = <<>>
                    THEN [@ EXCEPT !.pc = "outside", !.results = FALSE,
                                   !.next_url = FALSE]
                    ELSE [@ EXCEPT !.pc = "read",
                                   !.combined = Combined(storeExists, store, final_df.rows)]]
    /\ UNCHANGED <<clock, LAST_REQUEST_TS, departures, mergeVars, runVars, rangeVars,
                   mainVars, serviceVars, loopVars>>

\* combined.to_csv(output_file) opens the file for writing, which empties it.
OpenStore(t) ==
    /\ th[t].pc = "read"
    /\ store' = <<>>
    /\ storeExists' = TRUE
    /\ th' = [th EXCEPT ![t] = [@ EXCEPT !.pc = "writing"]]
    /\ UNCHANGED <<clock, LAST_REQUEST_TS, departures, newBars, prevStore, prevExists,
                   nMerges, mpc, pending, runVars, rangeVars, mainVars, serviceVars, loopVars>>

\* to_csv writes the frame from the start of the file and closes it (a frame
\* of this size in one write); what another thread has written beyond the
\* frame's length since the file was opened stays in the file.
WriteStore(t) ==
    /\ th[t].pc = "writing"
    /\ store' = th[t].combined \o SubSeq(store, Len(th[t].combined) + 1, Len(store))
    /\ newBars' = process_data(all_raw_data(th[t].pages)).rows
    /\ th' = [th EXCEPT ![t] = [@ EXCEPT !.pc = "outside", !.results = FALSE,
                                         !.next_url = FALSE, !.combined = <<>>]]
    /\ UNCHANGED <<clock, LAST_REQUEST_TS, departures, storeExists, prevStore, prevExists,
                   nMerges, mpc, pending, runVars, rangeVars, mainVars, serviceVars, loopVars>>

NextFetch ==
    \/ Tick
    \/ \E t \in Threads : StartDownload(t)
    \/ \E t \in Threads : NextBatch(t)
    \/ \E t \in Threads : Attempt(t)
    \/ \E t \in Threads : WakeLimit(t)
    \/ \E t \in Threads : Stamp(t)
    \/ \E t \in Threads : Send(t)
    \/ \E t \in Threads : Respond(t)
    \/ \E t \in Threads : Wake429(t)
    \/ \E t \in Threads : AfterBatch(t)
    \/ \E t \in Threads : FinishDownload(t)

SpecFetch1 == InitFetch1 /\ [][NextFetch]_vars

NextFetch2 ==
    \/ Tick
    \/ \E t \in Threads : StartDownload(t)
    \/ \E t \in Threads : NextBatch(t)
    \/ \E t \in Threads : Attempt(t)
    \/ \E t \in Threads : WakeLimit(t)
    \/ \E t \in Threads : Stamp(t)
    \/ \E t \in Threads : Send(t)
    \/ \E t \in Threads : Respond(t)
    \/ \E t \in Threads : Wake429(t)
    \/ \E t \in Threads : AfterBatch(t)
    \/ \E t \in Threads : ReadStore(t)
    \/ \E t \in Threads : OpenStore(t)
    \/ \E t \in Threads : WriteStore(t)

SpecFetch2 == InitFetch2 /\ [][NextFetch2]_vars

\* ---------------------------------------------------------------------------
\* SpecBatches: the batch loop of download_and_merge_data() with each
\* get_polygon_data() call taken as one step, whatever time it takes.
\* ---------------------------------------------------------------------------

InitBatches == InitFetch(1, 1, {0})

MaxLimited == 2      \* 429 answers ahead of the answer that ends a call

\* The times of the last two requests sent, after one more at time at.
Departed(sent_at, at) ==
    IF Len(sent_at) < 2 THEN Append(sent_at, at) ELSE <<sent_at[2], at>>

\* get_polygon_data() from the head of its retry loop on, run to its end
\* against a provider that answers the requests with answers, in order, and
\* at once. c holds the clock, _LAST_REQUEST_TS, the departures and the
\* call's counters. Every turn of the loop: attempt += 1;
\* respect_polygon_rate_limit() sleeps for wait when that is positive and
\* stamps _LAST_REQUEST_TS; the request leaves; a 429 is slept off (or the
\* sleep raises) and the loop goes round again; any other answer ends the
\* call.
RECURSIVE RetryLoop(_, _)
RetryLoop(c, answers) ==
    IF ~RetryAllowed(c.attempt)
    THEN [c EXCEPT !.end = "exhausted"]
    ELSE LET w == wait(c.clock, c.last)
             now == IF RATE_LIMIT_INTERVAL > 0 /\ w > 0 THEN c.clock + w ELSE c.clock
             r == Head(answers)
             sent == [c EXCEPT !.attempt = @ + 1,
                               !.clock = now,
                               !.last = IF RATE_LIMIT_INTERVAL > 0 THEN now ELSE @,
                               !.departures = Departed(@, now),
                               !.sent = @ + 1,
                               !.answer = r]
         IN  IF Retried(r.status)
             THEN IF SleepRaises(r.header)
                  THEN [sent EXCEPT !.limited = @ + 1, !.end = "raised"]
                  ELSE RetryLoop([sent EXCEPT !.limited = @ + 1,
                                              !.clock = now + retry_after(r.header)],
                                 Tail(answers))
             ELSE IF r.status = 200 /\ r.body # "object"
             THEN [sent EXCEPT !.end = "raised"]
             ELSE [sent EXCEPT !.end = "answered"]

\* One get_polygon_data(url=next_url) call, from attempt = 0 to its return
\* or to the exception that leaves it: the provider answers the first
\* limited requests with 429 and header h, and every request after them
\* with r. ([], None) when the retry budget ran out on 429 answers or a
\* request failed, else the page's (results, next_url). A provider that
\* still hands out a cursor after MaxBatches pages is one that never stops
\* doing so. One step in a process whose only thread of control is t:
\* nobody else reads or stamps _LAST_REQUEST_TS while the call sleeps or
\* waits for an answer.
GetPolygonData(t) ==
    /\ th[t].pc = "loop"
    /\ Threads = {t}
    /\ \E limited \in 0..MaxLimited, h \in RetryAfterHeaders, r \in Responses :
        /\ limited = 0 => h = NoHeader
        /\ th[t].batch_count > MaxBatches => (limited = 0 /\ r = Page(TRUE, TRUE))
        /\ LET answers == [i \in 1..MAX_RETRIES |-> IF i <= limited THEN Limited(h) ELSE r]
               c == RetryLoop([clock |-> clock, last |-> LAST_REQUEST_TS,
                               departures |-> departures, attempt |-> th[t].attempt,
                               sent |-> th[t].sent, limited |-> th[t].limited,
                               answer |-> Failed, end |-> "running"],
                              answers)
               page == c.end = "answered" /\ c.answer.status = 200
           IN  /\ clock' = c.clock
               /\ LAST_REQUEST_TS' = c.last
               /\ departures' = c.departures
               /\ th' = [th EXCEPT ![t] =
                           [@ EXCEPT !.pc = IF c.end = "raised" THEN "raised" ELSE "returned",
                                     !.status = c.answer.status,
                                     !.attempt = c.attempt,
                                     !.sent = c.sent,
                                     !.limited = c.limited,
                                     !.results = page /\ c.answer.results,
                                     !.next_url = page /\ c.answer.next_url]]
    /\ UNCHANGED <<mergeVars, runVars, rangeVars, mainVars, serviceVars, loopVars>>

NextBatches ==
    \/ \E t \in Threads : StartDownload(t)
    \/ \E t \in Threads : NextBatch(t)
    \/ \E t \in Threads : GetPolygonData(t)
    \/ \E t \in Threads : AfterBatch(t)
    \/ \E t \in Threads : FinishDownload(t)

SpecBatches == InitBatches /\ [][NextBatches]_vars

\* SpecBatchesLive: the same download, whose batch loop keeps running: every
\* get_polygon_data call returns (each request has a timeout, each sleep
\* ends) and the statements around it are taken.
BatchLoopStep ==
    \/ \E t \in Threads : NextBatch(t)
    \/ \E t \in Threads : GetPolygonData(t)
    \/ \E t \in Threads : AfterBatch(t)

SpecBatchesLive == SpecBatches /\ WF_vars(BatchLoopStep)

-----------------------------------------------------------------------------
(* Shapes of the store.                                                    *)

\* ---------------------------------------------------------------------------
\* SpecDownloads: a download of either provider, request by request: the
\* Polygon fetcher of SpecFetch1 or the Databento range call of SpecRange.
\* ---------------------------------------------------------------------------

InitDownloads == InitFetch1 \/ InitRange

NextDownloads ==
    \/ Tick
    \/ \E t \in Threads : StartDownload(t)
    \/ \E t \in Threads : NextBatch(t)
    \/ \E t \in Threads : Attempt(t)
    \/ \E t \in Threads : WakeLimit(t)
    \/ \E t \in Threads : Stamp(t)
    \/ \E t \in Threads : Send(t)
    \/ \E t \in Threads : Respond(t)
    \/ \E t \in Threads : Wake429(t)
    \/ \E t \in Threads : AfterBatch(t)
    \/ \E t \in Threads : FinishDownload(t)
    \/ PlanDatabento
    \/ BeginRange
    \/ RequestRange
    \/ RangeAnswered
    \/ RangeUnavailable
    \/ RangeFailed
    \/ AppendNewRows

SpecDownloads == InitDownloads /\ [][NextDownloads]_vars

\* ---------------------------------------------------------------------------
\* SpecNormalize: one provider response, normalised and merged.
\* ---------------------------------------------------------------------------

MaxRaw == 3          \* records of a response

\* The timestamps of a response's records: the provider's bars of day 0, or
\* one that does not parse.
RawTimes == { RawTime(k) : k \in 0..(Len(RawDayBars) - 1) } \cup {NaT}

\* A record of a response: with a timestamp, or without the key.
RawRecords == [t : RawTimes, val : {1}] \cup [val : {1}]

RawResponses ==
    UNION { [1..n -> RawRecords] : n \in 1..MaxRaw }

InitNormalize ==
    /\ InitStore
    /\ newBars = <<>>
    /\ prevStore = store
    /\ prevExists = storeExists
    /\ nMerges = 0
    /\ mpc = "idle"
    /\ pending = <<>>
    /\ flow \in {"databento", "polygon"}
    /\ today = MaxToday
    /\ rpc = "idle"
    /\ startDate = 0
    /\ endDate = today
    /\ todayMarket = today
    /\ requests = <<>>
    /\ FetchIdle
    /\ RangeIdle
    /\ ServiceIdle
    /\ LoopIdle
    /\ raw \in RawResponses
    /\ targets = <<>>
    /\ cursor = 0
    /\ mainPc = "idle"
    /\ lastRead = None
    /\ outcomes = <<>>

\* download_and_merge_data from process_data(all_raw_data) on, which is
\* reached with records collected; KeyError leaves the call and main().
NormalizePolygon ==
    /\ mpc = "idle"
    /\ flow = "polygon"
    /\ raw # <<>>
    /\ LET final_df == process_data(raw)
       IN  IF final_df.kind = "error"
           THEN /\ mpc' = "raised"
                /\ UNCHANGED <<store, storeExists, newBars, nMerges>>
           ELSE IF final_df.rows = <<>>
           THEN /\ mpc' = "empty"
                /\ UNCHANGED <<store, storeExists, newBars, nMerges>>
           ELSE /\ store' = append_to_csv(storeExists, store, final_df.rows)
                /\ storeExists' = TRUE
                /\ newBars' = final_df.rows
                /\ nMerges' = nMerges + 1
                /\ mpc' = "merged"
    /\ UNCHANGED <<prevStore, prevExists, pending, runVars, fetchVars, rangeVars, mainVars, serviceVars, loopVars>>

\* download_and_process_range from process_databento_frame on, for a
\* response with records, and the rest of main()'s loop body.
NormalizeDatabento ==
    /\ mpc = "idle"
    /\ flow = "databento"
    /\ raw # <<>>
    /\ LET processed == process_databento_frame(raw)
           filtered == BetweenDates(processed.rows, startDate, endDate)
       IN  IF processed.kind = "error"
           THEN /\ mpc' = "raised"
                /\ UNCHANGED <<store, storeExists, newBars, nMerges>>
           ELSE IF filtered = <<>>
           THEN /\ mpc' = "empty"
                /\ UNCHANGED <<store, storeExists, newBars, nMerges>>
           ELSE /\ store' = append_to_csv(storeExists, store, filtered)
                /\ storeExists' = TRUE
                /\ newBars' = filtered
                /\ nMerges' = nMerges + 1
                /\ mpc' = "merged"
    /\ UNCHANGED <<prevStore, prevExists, pending, runVars, fetchVars, rangeVars, mainVars, serviceVars, loopVars>>

NextNormalize == NormalizePolygon \/ NormalizeDatabento

SpecNormalize == InitNormalize /\ [][NextNormalize]_vars

\* ---------------------------------------------------------------------------
\* SpecYield: what a run does with what its fetch yielded: a download of
\* either provider request by request (SpecDownloads), or a response with
\* records on its way through normalisation (SpecNormalize).
\* ---------------------------------------------------------------------------

InitYield == InitDownloads \/ InitNormalize

NextYield ==
    \/ Tick
    \/ \E t \in Threads : StartDownload(t)
    \/ \E t \in Threads : NextBatch(t)
    \/ \E t \in Threads : Attempt(t)
    \/ \E t \in Threads : WakeLimit(t)
    \/ \E t \in Threads : Stamp(t)
    \/ \E t \in Threads : Send(t)
    \/ \E t \in Threads : Respond(t)
    \/ \E t \in Threads : Wake429(t)
    \/ \E t \in Threads : AfterBatch(t)
    \/ \E t \in Threads : FinishDownload(t)
    \/ PlanDatabento
    \/ BeginRange
    \/ RequestRange
    \/ RangeAnswered
    \/ RangeUnavailable
    \/ RangeFailed
    \/ AppendNewRows
    \/ NormalizePolygon
    \/ NormalizeDatabento

SpecYield == InitYield /\ [][NextYield]_vars

\* ---------------------------------------------------------------------------
\* SpecService: polygon_service. ThreadingHTTPServer runs each request's
\* handler in a thread of its own; the handlers share DOWNLOAD_STATUS.
\* download_symbol_data is taken by what _handle_download sees of it: it may
\* call the progress callback, and it raises, returns None or returns a frame.
\* ---------------------------------------------------------------------------

NHandlers == 2       \* requests the service handles, each in its own thread

\* What _extract_symbol() can return (stripped, upper case): nothing, text
\* that SYMBOL_RE rejects, or a symbol.
ServiceSymbols == {"", "SP Y", "SPY", "QQQ"}

\* SYMBOL_RE.match(symbol) with SYMBOL_RE = ^[A-Z0-9.-]+$
SymbolMatches(symbol) == symbol \in {"SPY", "QQQ"}

\* DOWNLOAD_STATUS.get(symbol): "idle" stands for no entry.
NoStatus == [s \in ServiceSymbols |-> "idle"]

\* A handler thread before its request arrives.
Waiting == [pc |-> "waiting", symbol |-> "", result |-> "", atCall |-> "", seen |-> ""]

Handlers == DOMAIN hd

\* How download_symbol_data ends, with what output_path.exists() then says.
DownloadResults == {"raised", "none_file_exists", "none_no_file", "frame"}

\* The state _handle_download records for a result.
FinalState(result) ==
    IF result \in {"raised", "none_no_file"} THEN "error" ELSE "done"

InitService ==
    /\ storeExists = FALSE
    /\ store = <<>>
    /\ newBars = <<>>
    /\ prevStore = <<>>
    /\ prevExists = FALSE
    /\ nMerges = 0
    /\ mpc = "idle"
    /\ pending = <<>>
    /\ RunIdle
    /\ FetchIdle
    /\ RangeIdle
    /\ MainIdle
    /\ LoopIdle
    /\ DOWNLOAD_STATUS = NoStatus
    /\ hd = [h \in 1..NHandlers |-> Waiting]

\* What a request carries for _extract_symbol: a symbol (in the query, or in
\* a POST body that is a JSON object; "" also for no query on a GET, for no
\* body and for a body that is not JSON), or, on a POST without a query, a
\* body that is JSON but no object ("[1, 2]") or a Content-Length that is no
\* integer ("abc").
DownloadRequests ==
    { [carries |-> "symbol", symbol |-> s] : s \in ServiceSymbols }
        \cup { [carries |-> c, symbol |-> ""] : c \in {"not_object", "bad_length"} }

\* _extract_symbol raises: payload.get on what is no dict (AttributeError),
\* int() of the Content-Length (ValueError).
ExtractRaises(request) == request.carries \in {"not_object", "bad_length"}

\* _handle_download up to the first _set_status: _extract_symbol may raise,
\* which ends the handler with no reply sent; a missing or rejected symbol
\* is answered with 400; otherwise the symbol is set to "running".
HandleDownload(h) ==
    /\ hd[h].pc = "waiting"
    /\ \E request \in DownloadRequests :
          IF ExtractRaises(request)
          THEN /\ hd' = [hd EXCEPT ![h] = [@ EXCEPT !.pc = "raised", !.symbol = "",
                                                    !.result = "no_reply",
                                                    !.seen = DOWNLOAD_STATUS[""]]]
               /\ UNCHANGED DOWNLOAD_STATUS
          ELSE IF request.symbol = "" \/ ~SymbolMatches(request.symbol)
          THEN /\ hd' = [hd EXCEPT ![h] = [@ EXCEPT !.pc = "returned",
                                                    !.symbol = request.symbol,
                                                    !.result = "bad_request",
                                                    !.seen = DOWNLOAD_STATUS[request.symbol]]]
               /\ UNCHANGED DOWNLOAD_STATUS
          ELSE /\ DOWNLOAD_STATUS' = [DOWNLOAD_STATUS EXCEPT ![request.symbol] = "running"]
               /\ hd' = [hd EXCEPT ![h] = [@ EXCEPT !.pc = "started",
                                                    !.symbol = request.symbol]]
    /\ UNCHANGED <<mergeVars, runVars, fetchVars, rangeVars, mainVars, loopVars>>

\* download_symbol_data(symbol, progress=...) is called.
CallDownload(h) ==
    /\ hd[h].pc = "started"
    /\ hd' = [hd EXCEPT ![h] = [@ EXCEPT !.pc = "downloading",
                                        !.atCall = DOWNLOAD_STATUS[hd[h].symbol]]]
    /\ UNCHANGED <<DOWNLOAD_STATUS, mergeVars, runVars, fetchVars, rangeVars, mainVars, loopVars>>

\* The download calls progress(msg): _set_status(symbol, "running", msg).
Progress(h) ==
    /\ hd[h].pc = "downloading"
    /\ DOWNLOAD_STATUS' = [DOWNLOAD_STATUS EXCEPT ![hd[h].symbol] = "running"]
    /\ UNCHANGED <<hd, mergeVars, runVars, fetchVars, rangeVars, mainVars, loopVars>>

\* download_symbol_data raises or returns.
DownloadReturns(h) ==
    /\ hd[h].pc = "downloading"
    /\ \E result \in DownloadResults :
          hd' = [hd EXCEPT ![h] = [@ EXCEPT !.pc = "finished", !.result = result]]
    /\ UNCHANGED <<DOWNLOAD_STATUS, mergeVars, runVars, fetchVars, rangeVars, mainVars, loopVars>>

\* The _set_status call of the branch taken: "error" or "done".
SetFinalStatus(h) ==
    /\ hd[h].pc = "finished"
    /\ DOWNLOAD_STATUS' = [DOWNLOAD_STATUS EXCEPT ![hd[h].symbol] = FinalState(hd[h].result)]
    /\ hd' = [hd EXCEPT ![h] = [@ EXCEPT !.pc = "responding"]]
    /\ UNCHANGED <<mergeVars, runVars, fetchVars, rangeVars, mainVars, loopVars>>

\* _send_json(...) and the handler returns; seen is the symbol's state then.
SendJson(h) ==
    /\ hd[h].pc = "responding"
    /\ hd' = [hd EXCEPT ![h] = [@ EXCEPT !.pc = "returned",
                                        !.seen = DOWNLOAD_STATUS[hd[h].symbol]]]
    /\ UNCHANGED <<DOWNLOAD_STATUS, mergeVars, runVars, fetchVars, rangeVars, mainVars, loopVars>>

NextService ==
    \/ \E h \in Handlers : HandleDownload(h)
    \/ \E h \in Handlers : CallDownload(h)
    \/ \E h \in Handlers : Progress(h)
    \/ \E h \in Handlers : DownloadReturns(h)
    \/ \E h \in Handlers : SetFinalStatus(h)
    \/ \E h \in Handlers : SendJson(h)

SpecService == InitService /\ [][NextService]_vars

\* ---------------------------------------------------------------------------
\* tv_downloader: the schedule of the interactive export loop. A datetime is
\* a number of whole seconds of New York wall time, a time of day the
\* seconds since midnight; parse_time_of_day yields whole minutes.
\* ---------------------------------------------------------------------------

SecondsPerDay == 24 * 60 * 60

\* datetime.time(): the time of day of a datetime.
TimeOf(instant) == instant % SecondsPerDay

\* value.hour * 60 + value.minute
_minutes_since_midnight(value) == value \div 60

\* _within_window(candidate, start_time, end_time): by hour and minute.
_within_window(candidate, start_time, end_time) ==
    LET candidate_minutes == _minutes_since_midnight(candidate)
        start_minutes == _minutes_since_midnight(start_time)
        end_minutes == _minutes_since_midnight(end_time)
    IN  IF start_time = NoTime /\ end_time = NoTime
        THEN TRUE
        ELSE IF start_time # NoTime /\ end_time # NoTime
        THEN IF start_minutes = end_minutes
             THEN TRUE
             ELSE IF start_minutes < end_minutes
             THEN start_minutes <= candidate_minutes /\ candidate_minutes <= end_minutes
             ELSE candidate_minutes >= start_minutes \/ candidate_minutes <= end_minutes
        ELSE IF start_time # NoTime
        THEN candidate_minutes >= start_minutes
        ELSE candidate_minutes <= end_minutes

\* next_loop_timestamp raised RuntimeError.
NoTimestamp == -1

\* Up to left iterations of "for _ in range(2 * 24 * 60)": the first
\* candidate inside the window, going minute by minute, or NoTimestamp.
RECURSIVE ScanMinutes(_, _, _, _)
ScanMinutes(candidate, start_time, end_time, left) ==
    IF left = 0
    THEN NoTimestamp
    ELSE IF _within_window(TimeOf(candidate), start_time, end_time)
    THEN candidate
    ELSE ScanMinutes(candidate + 60, start_time, end_time, left - 1)

\* The for loop, evaluated sixty iterations at a time; RuntimeError when the
\* range is used up.
RECURSIVE ScanWindow(_, _, _, _)
ScanWindow(candidate, start_time, end_time, left) ==
    IF left = 0
    THEN NoTimestamp
    ELSE LET n == IF left < 60 THEN left ELSE 60
             found == ScanMinutes(candidate, start_time, end_time, n)
         IN  IF found # NoTimestamp
             THEN found
             ELSE ScanWindow(candidate + 60 * n, start_time, end_time, left - n)

\* now.replace(second=50, microsecond=0)
AtSecond50(instant) == (instant \div 60) * 60 + 50

\* Faulty variant of next_loop_timestamp: "if candidate < now".
next_loop_timestamp_not_strict(now, start_time, end_time) ==
    LET at50 == AtSecond50(now)
        candidate == IF at50 < now THEN AtSecond50(at50 + 60) ELSE at50
    IN  ScanWindow(candidate, start_time, end_time, 2 * 24 * 60)

\* next_loop_timestamp(now, start_time, end_time, tz=NEW_YORK_TZ)
next_loop_timestamp(now, start_time, end_time) ==
    LET at50 == AtSecond50(now)
        candidate == IF at50 <= now THEN AtSecond50(at50 + 60) ELSE at50
    IN  ScanWindow(candidate, start_time, end_time, 2 * 24 * 60)

\* The instants at which the schedule is computed: around the turn of a
\* minute, at the start and at the end of a day.
LoopNows ==
    { d * SecondsPerDay + m * 60 + sec :
          d \in {1}, m \in {0, 1, 2, 3, 1438, 1439}, sec \in {0, 49, 50, 55} }

\* The times of day a window is set to (parse_time_of_day: second = 0), or None.
WindowTimes == { m * 60 : m \in {0, 1, 2, 1439} } \cup {NoTime}

\* ---------------------------------------------------------------------------
\* SpecSchedule: next_loop_timestamp applied to a time and a window.
\* ---------------------------------------------------------------------------

InitSchedule ==
    /\ storeExists = FALSE
    /\ store = <<>>
    /\ newBars = <<>>
    /\ prevStore = <<>>
    /\ prevExists = FALSE
    /\ nMerges = 0
    /\ mpc = "idle"
    /\ pending = <<>>
    /\ RunIdle
    /\ FetchIdle
    /\ RangeIdle
    /\ MainIdle
    /\ ServiceIdle
    /\ wall \in LoopNows
    /\ loop_state = NoLoop
    /\ paused = FALSE
    /\ loop_start_time \in WindowTimes
    /\ loop_end_time \in WindowTimes
    /\ loopLog = <<>>

\* recalc_next_run() / the "next_run" entry of a new loop_state.
ScheduleNextRun ==
    /\ ~loop_state.active
    /\ loop_state' = [active |-> TRUE,
                      next_run |-> next_loop_timestamp(wall, loop_start_time, loop_end_time)]
    /\ UNCHANGED <<mergeVars, runVars, fetchVars, rangeVars, mainVars, serviceVars,
                   wall, paused, loop_start_time, loop_end_time, loopLog>>

NextSchedule == ScheduleNextRun

SpecSchedule == InitSchedule /\ [][NextSchedule]_vars

\* ---------------------------------------------------------------------------
\* SpecLoop: the main loop of interactive_session (tv_downloader.py): the
\* scheduled run at the top of the loop and the commands p, r, s, the schedule
\* options and a chart selection with or without -l.
\* ---------------------------------------------------------------------------

\* The first instant of the session and the number of seconds it is followed.
LoopStart == SecondsPerDay
MaxLoopSeconds == 200

\* The seconds that pass in one wait of the loop (polls of select taken
\* together) and the seconds a chart batch takes.
LoopTick == 10
BatchSeconds == {LoopTick, 7 * LoopTick}

\* loopLog keeps the latest scheduled run or resume.
Logged(entry) == <<entry>>

\* The times of day the schedule options set, or None ("clear").
LoopWindowTimes == {NoTime, 120}

\* What a command gives for -start and for -end: nothing, a time of day,
\* "clear" (NoTime), or text parse_time_of_day rejects.
NotGiven == -3
Bogus == -2
TimeOptions == LoopWindowTimes \cup {NotGiven, Bogus}

\* What a command gives for the session: nothing, or a name of
\* SESSION_PRESETS; of these "asia", 19:00 - 03:00, the one whose window
\* holds the first minutes of the day.
NoSession == <<NotGiven, NotGiven>>
SessionOptions == {NoSession, <<19 * 60 * 60, 3 * 60 * 60>>}

\* The instants of the session, the windows its commands can set, and
\* next_loop_timestamp at each instant under each window, worked out once.
LoopInstants == { LoopStart + k * LoopTick : k \in 0..(MaxLoopSeconds \div LoopTick) }
LoopWindows ==
    (LoopWindowTimes \cup { session[1] : session \in SessionOptions \ {NoSession} })
        \X (LoopWindowTimes \cup { session[2] : session \in SessionOptions \ {NoSession} })
NextLoopTimestamps ==
    { <<now, window, next_loop_timestamp(now, window[1], window[2])>> :
          now \in LoopInstants, window \in LoopWindows }

\* next_loop_timestamp(now, start_time, end_time), looked up.
NextRunAt(now, start_time, end_time) ==
    (CHOOSE row \in NextLoopTimestamps : row[1] = now /\ row[2] = <<start_time, end_time>>)[3]

InitLoop ==
    /\ storeExists = FALSE
    /\ store = <<>>
    /\ newBars = <<>>
    /\ prevStore = <<>>
    /\ prevExists = FALSE
    /\ nMerges = 0
    /\ mpc = "idle"
    /\ pending = <<>>
    /\ RunIdle
    /\ FetchIdle
    /\ RangeIdle
    /\ MainIdle
    /\ ServiceIdle
    /\ wall = LoopStart
    /\ loop_state = NoLoop
    /\ paused = FALSE
    /\ loop_start_time = NoTime
    /\ loop_end_time = NoTime
    /\ loopLog = <<>>

\* recalc_next_run(), called at the instant now.
recalc_next_run(state, now) ==
    IF state.active
    THEN [state EXCEPT !.next_run = NextRunAt(now, loop_start_time, loop_end_time)]
    ELSE state

\* select() returns without input, or the session waits for input: time passes.
TimePasses ==
    /\ wall + LoopTick <= LoopStart + MaxLoopSeconds
    /\ wall' = wall + LoopTick
    /\ UNCHANGED <<mergeVars, runVars, fetchVars, rangeVars, mainVars, serviceVars,
                   loop_state, paused, loop_start_time, loop_end_time, loopLog>>

\* The top of the loop: the loop is set, not paused, and its next run is due.
\* run_chart_batch takes its time, then recalc_next_run().
ScheduledRun ==
    /\ loop_state.active
    /\ ~paused
    /\ loop_state.next_run <= wall
    /\ \E took \in BatchSeconds :
        /\ wall + took <= LoopStart + MaxLoopSeconds
        /\ wall' = wall + took
        /\ loop_state' = recalc_next_run(loop_state, wall + took)
        /\ loopLog' = Logged(
               [kind |-> "scheduled", at |-> wall, finished |-> wall + took,
                due |-> loop_state.next_run,
                paused |-> paused, active |-> loop_state.active,
                next_run |-> loop_state'.next_run])
    /\ UNCHANGED <<mergeVars, runVars, fetchVars, rangeVars, mainVars, serviceVars,
                   paused, loop_start_time, loop_end_time>>

\* Command p.
PauseLoop ==
    /\ loop_state.active
    /\ ~paused
    /\ paused' = TRUE
    /\ UNCHANGED <<mergeVars, runVars, fetchVars, rangeVars, mainVars, serviceVars,
                   wall, loop_state, loop_start_time, loop_end_time, loopLog>>

\* Faulty variant of ResumeLoop: the next run is left as it was.
ResumeLoop_keeps_next_run ==
    /\ loop_state.active
    /\ paused
    /\ paused' = FALSE
    /\ loop_state' = loop_state
    /\ loopLog' = Logged(
           [kind |-> "resumed", at |-> wall, finished |-> wall,
            due |-> loop_state.next_run,
            paused |-> paused, active |-> loop_state.active,
            next_run |-> loop_state'.next_run])
    /\ UNCHANGED <<mergeVars, runVars, fetchVars, rangeVars, mainVars, serviceVars,
                   wall, loop_start_time, loop_end_time>>

\* Command r.
ResumeLoop ==
    /\ loop_state.active
    /\ paused
    /\ paused' = FALSE
    /\ loop_state' = recalc_next_run(loop_state, wall)
    /\ loopLog' = Logged(
           [kind |-> "resumed", at |-> wall, finished |-> wall,
            due |-> loop_state.next_run,
            paused |-> paused, active |-> loop_state.active,
            next_run |-> loop_state'.next_run])
    /\ UNCHANGED <<mergeVars, runVars, fetchVars, rangeVars, mainVars, serviceVars,
                   wall, loop_start_time, loop_end_time>>

\* Command s.
StopLoop ==
    /\ loop_state.active \/ loop_start_time # NoTime \/ loop_end_time # NoTime
    /\ loop_state' = NoLoop
    /\ loop_start_time' = NoTime
    /\ loop_end_time' = NoTime
    /\ paused' = FALSE
    /\ UNCHANGED <<mergeVars, runVars, fetchVars, rangeVars, mainVars, serviceVars,
                   wall, loopLog>>

\* A command with schedule options and no selection. The session is applied
\* first, then -start, then -end; text that does not parse ends the command
\* with what was set before it and without recalc_next_run(); otherwise
\* recalc_next_run() is called, whether or not the window changed.
SetWindow ==
    /\ \E session \in SessionOptions, start_option \in TimeOptions, end_option \in TimeOptions :
        LET after_session ==
                IF session = NoSession
                THEN <<loop_start_time, loop_end_time>>
                ELSE session
            start_time == IF start_option \in {NotGiven, Bogus}
                          THEN after_session[1] ELSE start_option
            end_time == IF end_option \in {NotGiven, Bogus} \/ start_option = Bogus
                        THEN after_session[2] ELSE end_option
            parsed == start_option # Bogus /\ end_option # Bogus
        IN  /\ session # NoSession \/ start_option # NotGiven \/ end_option # NotGiven
            /\ loop_start_time' = start_time
            /\ loop_end_time' = end_time
            /\ loop_state' =
                   IF parsed /\ loop_state.active
                   THEN [loop_state EXCEPT
                             !.next_run = NextRunAt(wall, start_time, end_time)]
                   ELSE loop_state
    /\ UNCHANGED <<mergeVars, runVars, fetchVars, rangeVars, mainVars, serviceVars,
                   wall, paused, loopLog>>

\* A selection with -l: the batch runs now, then loop_state is set with its
\* next run and the pause is lifted.
StartLoop ==
    /\ \E took \in BatchSeconds :
        /\ wall + took <= LoopStart + MaxLoopSeconds
        /\ wall' = wall + took
        /\ loop_state' = [active |-> TRUE,
                          next_run |-> NextRunAt(wall + took, loop_start_time,
                                                 loop_end_time)]
    /\ paused' = FALSE
    /\ UNCHANGED <<mergeVars, runVars, fetchVars, rangeVars, mainVars, serviceVars,
                   loop_start_time, loop_end_time, loopLog>>

\* A selection without -l: the batch runs once, now.
RunOnce ==
    /\ \E took \in BatchSeconds :
        /\ wall + took <= LoopStart + MaxLoopSeconds
        /\ wall' = wall + took
    /\ UNCHANGED <<mergeVars, runVars, fetchVars, rangeVars, mainVars, serviceVars,
                   loop_state, paused, loop_start_time, loop_end_time, loopLog>>

NextLoop ==
    \/ TimePasses
    \/ ScheduledRun
    \/ PauseLoop
    \/ ResumeLoop
    \/ StopLoop
    \/ SetWindow
    \/ StartLoop
    \/ RunOnce

SpecLoop == InitLoop /\ [][NextLoop]_vars

Times(file) == [i \in 1..Len(file) |-> to_datetime(file[i].caldt)]

StrictlyAscending(s) == \A i \in 1..(Len(s) - 1) : s[i] < s[i + 1]

\* The rows of a frame or file whose caldt is the instant t.
RowsAt(rows, t) == { i \in 1..Len(rows) : to_datetime(rows[i].caldt) = t }

\* Some freshly fetched bar has the timestamp of a row of the earlier store.
TieWithStore == \E i \in 1..Len(newBars) :
                   RowsAt(prevStore, to_datetime(newBars[i].caldt)) # {}

-----------------------------------------------------------------------------
(* Claims about append_to_csv.                                             *)

\* C1: after any sequence of append_to_csv merges the rows of the store
\* file are strictly ascending by caldt, and no two rows share a caldt
\* (neither as instants nor as the text written to the file).
C1_StoreStrictlyAscending ==
    /\ StrictlyAscending(Times(store))
    /\ \A i, j \in 1..Len(store) : i # j => store[i].caldt # store[j].caldt

\* C1 witness: a merge of more rows than the sort's insertion-sort range, in
\* which a fetched bar met a stored row of the same timestamp.
C1_Witness ==
    /\ mpc = "merged"
    /\ Len(prevStore) + Len(newBars) > SMALL_QUICKSORT + 1
    /\ TieWithStore
    /\ Len(store) > Len(prevStore)

\* C2 (as claimed): a second append_to_csv call with the same bars, against
\* the store the first call produced, leaves the store as the first call
\* left it.
C2_MergeIdempotent ==
    mpc = "remerged" => store = prevStore

\* C3 (as claimed): for every freshly fetched bar the store holds, after the
\* merge, exactly one row of its timestamp, and that row carries the fetched
\* bar's values, also when the earlier store had a row of that timestamp.
C3_NewBarWins ==
    mpc = "merged" =>
        \A i \in 1..Len(newBars) :
            LET at == RowsAt(store, to_datetime(newBars[i].caldt))
            IN  /\ Cardinality(at) = 1
                /\ \A k \in at : store[k].val = newBars[i].val

\* C4 (as claimed): if the process dies while append_to_csv is writing, the
\* store file holds its complete previous content or the complete merged
\* content.
C4_AtomicReplace ==
    mpc = "crashed" =>
        \/ (storeExists = prevExists /\ store = prevStore)
        \/ (storeExists /\ store = pending)

-----------------------------------------------------------------------------
(* Claims about the range planning of main().                              *)

\* The last date of the store as the run found it.
LastDate == get_last_data_date(prevStore)

\* The store had a last row, dated before yesterday, and the loop body has
\* passed its planning.
StalePlanned ==
    /\ rpc # "start"
    /\ prevExists
    /\ LastDate.kind = "date"
    /\ LastDate.d < today - 1

\* C5 (as claimed): for a store whose last row has date D, D earlier than
\* yesterday, the planned range has start_date = D + 1 and end_date = today.
C5_StartIsDayAfterLast ==
    StalePlanned => startDate = LastDate.d + 1 /\ endDate = today

\* C5 (amended): for such a store start_date is D + 1 in the Polygon run and
\* the later of D + 1 and DEFAULT_START_DATE in the Databento run; end_date
\* is today.
C5_StartIsDayAfterLastClamped ==
    StalePlanned =>
        /\ endDate = today
        /\ flow = "polygon" => startDate = LastDate.d + 1
        /\ flow = "databento" =>
              /\ startDate >= LastDate.d + 1
              /\ startDate >= DEFAULT_START_DATE
              /\ startDate \in {LastDate.d + 1, DEFAULT_START_DATE}

\* C5 witness: a Databento run over a store that ends before the day ahead
\* of DEFAULT_START_DATE, planned from DEFAULT_START_DATE.
C5_Witness ==
    /\ StalePlanned
    /\ rpc = "planned"
    /\ flow = "databento"
    /\ LastDate.d + 1 < DEFAULT_START_DATE
    /\ startDate = DEFAULT_START_DATE

\* The default first day of a run over a store without data rows.
DefaultStart == IF flow = "databento" THEN DEFAULT_START_DATE ELSE today - FREE_TIER_DAYS

\* C6 (as claimed): when the store file does not exist, or exists without
\* data rows, the run plans the range from the default earliest date to
\* today and goes on to fetch it.
C6_AbsentOrEmptyPlansDefault ==
    (rpc # "start" /\ (~prevExists \/ prevStore = <<>>)) =>
        /\ rpc \notin {"skipped", "rejected"}
        /\ startDate = DefaultStart
        /\ endDate = today

\* C7: when the store's last date is yesterday or later, the run for the
\* symbol plans no range, issues no remote request and leaves the store as
\* it was.
C7_FreshStoreSkipped ==
    (rpc # "start" /\ prevExists /\ LastDate.kind = "date" /\ LastDate.d >= today - 1) =>
        /\ rpc = "skipped"
        /\ requests = <<>>
        /\ newBars = <<>>
        /\ store = prevStore
        /\ storeExists = prevExists

\* C7 witness: a store whose last date is yesterday has been skipped.
C7_Witness ==
    /\ rpc = "skipped"
    /\ prevExists
    /\ LastDate.kind = "date"
    /\ LastDate.d = today - 1

\* C8. Within one process, any two consecutive HTTP requests to Polygon leave
\* at least RATE_LIMIT_INTERVAL seconds apart.
C8_DeparturesSpaced ==
    Len(departures) = 2 => departures[2] - departures[1] >= RATE_LIMIT_INTERVAL

\* C8 happens: a cursor follow-up has left exactly one interval after the
\* request for the page before it.
C8_Witness ==
    /\ Len(departures) = 2
    /\ departures[2] - departures[1] = RATE_LIMIT_INTERVAL
    /\ \E t \in Threads :
          th[t].pc = "awaiting" /\ th[t].batch_count = 2 /\ th[t].sent = 1

\* C9. With several download requests running at once, consecutive requests to
\* Polygon still leave at least RATE_LIMIT_INTERVAL seconds apart.
C9_ConcurrentDeparturesSpaced ==
    \A i, j \in 1..Len(departures) :
        i < j => departures[j] - departures[i] >= RATE_LIMIT_INTERVAL

\* C10 (as claimed): one get_polygon_data call sends at most MAX_RETRIES
\* requests, and a call whose every request was answered 429 ends after
\* exactly MAX_RETRIES requests by returning no results and no cursor.
C10_AtMostFiveAttempts ==
    \A t \in Threads :
        /\ th[t].sent <= MAX_RETRIES
        /\ (th[t].pc \in {"returned", "raised"} /\ th[t].limited = th[t].sent)
              => /\ th[t].pc = "returned"
                 /\ th[t].sent = MAX_RETRIES
                 /\ ~th[t].results
                 /\ ~th[t].next_url

\* The in-hours bars of the first n pages of a download are rows of the store.
PagesInStore(n) ==
    \A k \in 1..n : InMarketHours(RawTime(k)) => RowsAt(store, Timestamp(RawTime(k))) # {}

\* C11. After a 429 the same request is sent again no sooner than the
\* Retry-After seconds and no sooner than RATE_LIMIT_INTERVAL after the 429
\* arrived, for the same URL or cursor; a call answered 429 twice and then
\* with a page returns that page's records after three attempts.
C11_RetryWaitsThenThirdAttempt ==
    \A t \in Threads :
        /\ (th[t].pc = "send" /\ th[t].limited >= 1)
              => /\ clock - th[t].since >= th[t].hint
                 /\ clock - th[t].since >= RATE_LIMIT_INTERVAL
        /\ th[t].pc \in {"loop", "sleep_limit", "stamp", "send", "awaiting", "sleep_429"}
              => (th[t].next_url <=> th[t].batch_count > 1)
        /\ (th[t].pc = "returned" /\ th[t].status = 200 /\ th[t].limited = 2)
              => th[t].attempt = 3 /\ th[t].sent = 3

\* C11 happens: a call whose first two requests were answered 429 has
\* returned the records of the third.
C11_Witness ==
    \E t \in Threads :
        /\ th[t].pc = "returned"
        /\ th[t].status = 200
        /\ th[t].limited = 2
        /\ th[t].attempt = 3
        /\ th[t].results

\* C12. When the retry budget runs out on 429 answers after earlier pages
\* were retrieved, the bars of those pages are normalised and merged into the
\* store and the download returns them.
C12_EarlierPagesKept ==
    \A t \in Threads :
        (th[t].pc = "outside" /\ th[t].status = 429 /\ th[t].pages > 0)
            => /\ PagesInStore(th[t].pages)
               /\ newBars = process_data(all_raw_data(th[t].pages)).rows
               /\ newBars # <<>>
               /\ \A i \in 1..Len(prevStore) :
                      RowsAt(store, to_datetime(prevStore[i].caldt)) # {}

\* C12 happens: a download has ended on an exhausted retry budget with a page
\* collected before.
C12_Witness ==
    \E t \in Threads :
        /\ th[t].pc = "outside"
        /\ th[t].status = 429
        /\ th[t].pages > 0
        /\ th[t].batch_count = th[t].pages + 1
        /\ Len(store) > Len(prevStore)

\* C13. After a request that failed other than with a 429 the fetch is over:
\* the request is not sent again and no further request leaves for the
\* symbol, in the Polygon fetcher and in the Databento range call.
C13_FailureEndsFetch ==
    [][ /\ \A t \in Threads :
              /\ th[t].status = 500 => th[t].pc \in {"returned", "collected", "outside"}
              /\ (th[t].status = 500 /\ th'[t].status = 500)
                    => departures' = departures
        /\ outcome = "failed"
              => (requests' = requests /\ rpc \in {"fetched", "done"})
      ]_vars

\* C13 happens: a download is over whose second page request failed, one
\* request after the first.
C13_Witness ==
    \E t \in Threads :
        /\ th[t].pc = "outside"
        /\ th[t].status = 500
        /\ th[t].pages = 1
        /\ Len(departures) = 2

\* C14 (as claimed): after a download in which a request failed other than
\* with a 429, the store is as it was before the download.
C14_FailureLeavesStore ==
    \A t \in Threads :
        (th[t].pc = "outside" /\ th[t].status = 500)
            => (store = prevStore /\ storeExists = prevExists)

\* C15. A download asks for at most MAX_BATCHES pages; when every page comes
\* with a cursor it stops after MAX_BATCHES pages and merges their bars.
C15_CapThenMerge ==
    \A t \in Threads :
        /\ th[t].pages <= MAX_BATCHES
        /\ th[t].pc \in {"loop", "returned"} => th[t].batch_count <= MAX_BATCHES
        /\ (th[t].pc = "outside" /\ th[t].batch_count > MAX_BATCHES)
              => /\ th[t].pages = MAX_BATCHES
                 /\ PagesInStore(MAX_BATCHES)
                 /\ newBars = process_data(all_raw_data(MAX_BATCHES)).rows

\* C15 happens: a download has stopped at the cap and merged.
C15_Witness ==
    \E t \in Threads :
        /\ th[t].pc = "outside"
        /\ th[t].batch_count = MAX_BATCHES + 1
        /\ th[t].pages = MAX_BATCHES
        /\ th[t].status = 200
        /\ Len(store) > Len(prevStore)

\* C16 (as claimed): below the cap a page answered with a cursor is followed
\* by the request for that cursor; the batch loop ends only after an answer
\* without a cursor.
C16_CursorAlwaysFollowed ==
    [][ \A t \in Threads :
          (th[t].pc = "returned" /\ th[t].status = 200 /\ th[t].next_url
             /\ th[t].batch_count < MAX_BATCHES /\ th'[t].pc # "returned")
            => (th'[t].pc = "batch" /\ th'[t].next_url)
      ]_vars

\* C16 (amended): below the cap the batch loop goes round again, asking for
\* the cursor, exactly when the call returned records and a cursor; it ends
\* after a page without a cursor, after an empty page (with or without a
\* cursor), and after a call that gave up.
C16_CursorFollowedWhenRecords ==
    [][ \A t \in Threads :
          (th[t].pc = "returned" /\ th'[t].pc # "returned")
            => /\ th'[t].pc \in {"batch", "collected"}
               /\ th'[t].pc = "batch" <=> (th[t].results /\ th[t].next_url)
               /\ th'[t].pc = "batch" => th'[t].next_url
      ]_vars

\* C16 happens: the batch loop has ended, below the cap, on an empty page
\* that carried a cursor, after a page with records.
C16_Witness ==
    \E t \in Threads :
        /\ th[t].pc = "collected"
        /\ th[t].status = 200
        /\ ~th[t].results
        /\ th[t].next_url
        /\ th[t].pages = 1
        /\ th[t].batch_count = 2

\* Report i names a boundary strictly inside the range of the request it
\* answers.
StrictlyInside(i) ==
    Midnight(requests[i].start) < reports[i] /\ reports[i] < requests[i].end

\* C17 (as claimed): once the provider has reported a boundary strictly
\* inside the requested range, no later request ends after the boundary and
\* the call finishes with the boundary as its end.
C17_EndIsReportedBoundary ==
    \A i \in 1..Len(reports) :
        StrictlyInside(i)
            => /\ \A j \in (i + 1)..Len(requests) : requests[j].end <= reports[i]
               /\ rpc \in {"fetched", "done"} => end_dt = reports[i]

\* C18. When the reported boundary is before start_date, the range call asks
\* nothing more and returns no rows, and the store stays as it was.
C18_BoundaryBeforeStartEndsCall ==
    \A i \in 1..Len(reports) :
        (reports[i] # NoInstant /\ DateOf(reports[i]) < startDate)
            => /\ Len(requests) = i
               /\ rpc \in {"fetched", "done"}
               /\ outcome = "unreachable"
               /\ newBars = <<>>
               /\ store = prevStore
               /\ storeExists = prevExists

\* C18 happens: the run is over after a boundary before start_date, reported
\* to the first request over an existing store.
C18_Witness ==
    /\ rpc = "done"
    /\ Len(reports) = 1
    /\ reports[1] # NoInstant
    /\ DateOf(reports[1]) < startDate
    /\ Len(requests) = 1
    /\ store # <<>>

\* C19 (as claimed): all requests of one range call have the same start, and
\* no request ends later than the one before it.
C19_EndNeverIncreases ==
    \A i, j \in 1..Len(requests) :
        i < j => /\ requests[j].start = requests[i].start
                 /\ requests[j].end <= requests[i].end

\* C20 (as claimed): one range call sends at most two requests, and a second
\* availability error ends it without rows.
C20_AtMostTwoRequests ==
    /\ Len(requests) <= 2
    /\ Len(reports) >= 2 => (rpc \in {"fetched", "done"} /\ newBars = <<>>)

\* C21 to C30.

\* Some line of the file has a field beyond the header's columns.
HasLongLine(file) == \E i \in 1..Len(file) : DOMAIN file[i] # {"caldt", "val", "day"}

\* A line after the first data line has a field beyond the header's columns
\* and the first data line has none: the file pd.read_csv rejects.
LaterLineTooLong(file) ==
    /\ HasLongLine(file)
    /\ DOMAIN file[1] = {"caldt", "val", "day"}

\* C23. When the store file exists and pd.read_csv rejects it, append_to_csv
\* still writes: the store then holds exactly the new bars, one row for each
\* of their timestamps, in ascending order.
C23_UnreadableStoreReplaced ==
    (mpc = "merged" /\ prevExists /\ LaterLineTooLong(prevStore))
        => /\ StrictlyAscending(Times(store))
           /\ \A i \in 1..Len(store) :
                 \E j \in 1..Len(newBars) :
                    /\ to_datetime(newBars[j].caldt) = to_datetime(store[i].caldt)
                    /\ newBars[j].val = store[i].val
                    /\ newBars[j].day = store[i].day
           /\ \A j \in 1..Len(newBars) : RowsAt(store, to_datetime(newBars[j].caldt)) # {}
           /\ ~HasLongLine(store)

\* C23 happens: new bars were merged over a rejected store of several rows,
\* some of them at timestamps the new bars do not have.
C23_Witness ==
    /\ mpc = "merged"
    /\ prevExists
    /\ LaterLineTooLong(prevStore)
    /\ Len(prevStore) > Len(newBars)
    /\ Len(store) = Len(newBars)
    /\ Len(newBars) > 1

\* C21 (as claimed): no exception escapes the per-symbol loop of main(), and
\* when main() is over every symbol has had its loop body.
C21_NoExceptionEscapesLoop ==
    /\ mainPc # "raised"
    /\ mainPc = "finished" => Len(outcomes) = Len(targets)

\* The last line of the file of the symbol at the cursor.
LastLine == targets[cursor].file[Len(targets[cursor].file)]

\* The last line's day cell is a date; its caldt cell starts with a date.
DayIsDate == LastLine.day \in LastDays
CaldtHasDate == LastLine.caldt \notin {BlankCaldt, GarbledCaldt}

\* C30. get_last_data_date gives None for a file without data rows, the date
\* of the last line's day field when that field is not empty, else the date
\* part of the last line's caldt; it raises when the field it uses does not
\* parse, or when both are empty.
C30_LastDateFromDayElseCaldt ==
    /\ mainPc \in {"plan", "download"} =>
          IF targets[cursor].file = <<>>
          THEN lastRead = None
          ELSE IF LastLine.day # BlankCell
          THEN DayIsDate /\ lastRead = Date(LastLine.day)
          ELSE CaldtHasDate /\ lastRead = Date(LastLine.caldt[2])
    /\ (mainPc = "raised" /\ outcomes[Len(outcomes)] = "malformed_store") =>
          /\ targets[cursor].file # <<>>
          /\ \/ LastLine.day = GarbledCell
             \/ LastLine.day = BlankCell /\ ~CaldtHasDate

\* C30 happens: the day field of the last line is empty and the date was
\* taken from caldt.
C30_Witness ==
    /\ mainPc = "plan"
    /\ targets[cursor].file # <<>>
    /\ LastLine.day = BlankCell
    /\ lastRead = Date(LastLine.caldt[2])

\* C22 (as claimed): a response with a record whose timestamp does not parse
\* fails as a whole: normalisation raises and the store stays as it was.
C22_BadTimestampFailsResponse ==
    (mpc # "idle" /\ \E i \in 1..Len(raw) : HasKey(raw[i]) /\ raw[i].t = NaT)
        => (mpc = "raised" /\ store = prevStore /\ storeExists = prevExists)

\* C24. In one symbol's run the store is written at most once, by the step
\* that ends the run, from the store the run began with: requests are sent
\* only before that step (Polygon: from inside get_polygon_data; Databento:
\* between planning and the answer), and no request follows it.
C24_StoreWrittenOnceAtEnd ==
    [][ /\ \A t \in Threads :
            /\ store' # store
                  => /\ th[t].pc = "collected" /\ th'[t].pc = "outside"
                     /\ store = prevStore /\ storeExists = prevExists
            /\ departures' # departures
                  => /\ th[t].pc = "send"
                     /\ store = prevStore /\ store' = store
        /\ (Threads = {} /\ store' # store)
              => /\ rpc = "fetched" /\ rpc' = "done"
                 /\ store = prevStore /\ storeExists = prevExists
        /\ requests' # requests
              => /\ rpc = "requesting"
                 /\ store = prevStore /\ store' = store
        /\ rpc \in {"fetched", "done", "skipped"} => requests' = requests
      ]_vars

\* C24 happens: a download has written the store after its second request.
C24_Witness ==
    \E t \in Threads :
        /\ th[t].pc = "outside"
        /\ th[t].pages = 2
        /\ Len(departures) = 2
        /\ store # prevStore

\* C25 (as claimed): at no time are two downloads into the same store file
\* in progress together.
C25_OneDownloadAtATime ==
    Cardinality({ t \in Threads : th[t].pc # "outside" }) <= 1

\* A download that merged its pages ended before the provider ran out of
\* bars: on an exhausted retry budget, on a failed request, or at the cap.
CutShort(t) ==
    /\ th[t].pc = "outside"
    /\ th[t].pages > 0
    /\ store # prevStore
    /\ \/ th[t].status \in {429, 500}
       \/ th[t].batch_count > MAX_BATCHES

\* C26 (as claimed): after a download that was cut short and merged, the
\* next run's range starts no later than the day of the first bar that was
\* not retrieved.
C26_RerunCoversMissingDays ==
    \A t \in Threads :
        (CutShort(t) /\ InMarketHours(RawTime(th[t].pages + 1)))
            => PlanStart("polygon", get_last_data_date(store), DayOf(RawTime(th[t].pages + 1)) + 2)
                  <= DayOf(RawTime(th[t].pages + 1))

\* C27. download_and_process_range's request loop ends, whatever the provider
\* answers and however many availability errors it raises: a call that has
\* begun returns or raises.
C27_RangeLoopEnds ==
    (rpc \in {"requesting", "asked"}) ~> (rpc \in {"fetched", "done", "raised"})

\* C27 happens: the call gave up on an availability error that followed a
\* narrowing of the end.
C27_Witness ==
    /\ rpc = "done"
    /\ outcome = "stuck"
    /\ adjusted
    /\ end_dt < Midnight(endDate + 1)
    /\ reports = <<>>

\* C28. The batch loop of download_and_merge_data is left whatever the
\* provider does (by a break, or by an exception out of get_polygon_data),
\* after get_polygon_data was called for at most MAX_BATCHES pages and sent
\* at most MAX_RETRIES requests for each; what follows the loop is one
\* process_data and one append_to_csv.
C28_DownloadEnds ==
    /\ [](/\ th[1].pages <= MAX_BATCHES
          /\ th[1].batch_count <= MAX_BATCHES + 1
          /\ th[1].sent <= MAX_RETRIES
          /\ th[1].pc = "loop" => th[1].batch_count <= MAX_BATCHES)
    /\ (th[1].pc \in {"batch", "loop", "returned"})
          ~> (th[1].pc \in {"collected", "outside", "raised"})

\* C28 happens: a download fed a cursor with every page is over.
C28_Witness ==
    /\ th[1].pc = "outside"
    /\ th[1].left = 0
    /\ th[1].pages = MAX_BATCHES
    /\ th[1].status = 200
    /\ storeExists

\* C29. The first request of a Databento range call has start = start_date
\* and, as its exclusive end, the midnight (UTC) of the day after end_date.
C29_FirstRequestWindow ==
    Len(requests) >= 1
        => /\ requests[1].start = startDate
           /\ requests[1].end = (endDate + 1) * TicksPerDay
           /\ requests[1].end % TicksPerDay = 0
           /\ DateOf(requests[1].end) = endDate + 1
           /\ DateOf(requests[1].end - 1) = endDate

\* C29 happens: the first request of a range of several days is out.
C29_Witness ==
    /\ rpc = "asked"
    /\ Len(requests) = 1
    /\ startDate < endDate
    /\ flow = "databento"

\* C31. Every range a run requests from the provider has start_date <=
\* end_date = today, starts after the last date of the store when there is
\* one, and is the range that was planned; a run whose computed start_date
\* is after end_date sends no request.
C31_RequestedRangeWellFormed ==
    LET last == get_last_data_date(prevStore)
    IN  /\ requests # <<>> =>
              /\ startDate <= endDate
              /\ endDate = today
              /\ requests[1].start = startDate
              /\ requests[1].end = IF flow = "databento" THEN Midnight(endDate + 1) ELSE endDate
              /\ last.kind = "date" => startDate > last.d
        /\ (rpc # "start" /\ rpc # "idle" /\ startDate > endDate) => requests = <<>>

\* A run over a store with a last date that requested its range and merged
\* the answer.
C31_Witness ==
    /\ rpc = "done"
    /\ requests # <<>>
    /\ get_last_data_date(prevStore).kind = "date"
    /\ startDate = get_last_data_date(prevStore).d + 1
    /\ nMerges = 1

\* C32. Every row download_and_process_range returns is dated within
\* start_date .. end_date, so a Databento run that merges them keeps every
\* row the store had, in place and unchanged, and the rows it adds are all
\* dated after the store's last date.
C32_ReturnedRowsInRange ==
    LET last == get_last_data_date(prevStore)
    IN  /\ (flow = "databento" /\ rpc \in {"fetched", "done"}) =>
              \A i \in 1..Len(newBars) :
                  /\ startDate <= dt_date(to_datetime(newBars[i].caldt))
                  /\ dt_date(to_datetime(newBars[i].caldt)) <= endDate
        /\ (flow = "databento" /\ rpc = "done") =>
              /\ Len(store) >= Len(prevStore)
              /\ \A i \in 1..Len(prevStore) : store[i] = prevStore[i]
              /\ \A i \in (Len(prevStore) + 1)..Len(store) :
                    /\ last.kind = "date" => store[i].day > last.d
                    /\ \E j \in 1..Len(newBars) :
                          store[i] = FileRow(Minute(to_datetime(newBars[j].caldt)), newBars[j].val)

\* A Databento run over a store with rows whose answered request brought
\* rows, which were merged.
C32_Witness ==
    /\ flow = "databento"
    /\ rpc = "done"
    /\ outcome = "answered"
    /\ Len(prevStore) > 0
    /\ Len(store) > Len(prevStore)
    /\ Len(newBars) > 1

\* C33. A run whose fetch yielded no bars (no page collected, every request
\* failed, or every bar filtered out) has not called append_to_csv, and the
\* store file is as it was before the run.
C33_NoBarsNoWrite ==
    /\ \A t \in Threads :
          (/\ th[t].pc = "outside"
           /\ th[t].batch_count > 0
           /\ process_data(all_raw_data(th[t].pages)).rows = <<>>)
              => (store = prevStore /\ storeExists = prevExists /\ newBars = <<>>)
    /\ (rpc = "done" /\ newBars = <<>>)
          => (store = prevStore /\ storeExists = prevExists /\ nMerges = 0)
    /\ (mpc = "empty" \/ (mpc # "idle" /\ flow = "polygon" /\ process_data(raw).rows = <<>>))
          => (store = prevStore /\ storeExists = prevExists /\ nMerges = 0
              /\ newBars = <<>>)

\* A Databento run whose answered request brought nothing for its range,
\* over a store with rows.
C33_Witness ==
    /\ rpc = "done"
    /\ outcome = "answered"
    /\ newBars = <<>>
    /\ Len(store) > 0
    /\ nMerges = 0

\* The instants of the rows of a frame or file, as a set.
TimeSet(rows) == { to_datetime(rows[i].caldt) : i \in 1..Len(rows) }

\* C34. After append_to_csv over a readable store the timestamps of the
\* store are those of the earlier store together with those of the new
\* bars, and every earlier row whose timestamp is not among the new bars is
\* still in the store, as it was written.
C34_TimestampsAreUnion ==
    (mpc \in {"merged", "remerged"} /\ ~HasLongLine(prevStore)) =>
        /\ TimeSet(store) = TimeSet(prevStore) \cup TimeSet(newBars)
        /\ \A i \in 1..Len(prevStore) :
              to_datetime(prevStore[i].caldt) \notin TimeSet(newBars)
                  => \E k \in 1..Len(store) : store[k] = prevStore[i]

\* A merge of more rows than the sort's insertion-sort range in which some
\* fetched bars met stored rows, some were new, and some stored rows had no
\* fetched bar.
C34_Witness ==
    /\ mpc = "merged"
    /\ prevExists
    /\ Len(prevStore) + Len(newBars) > SMALL_QUICKSORT + 1
    /\ TieWithStore
    /\ TimeSet(newBars) \ TimeSet(prevStore) # {}
    /\ TimeSet(prevStore) \ TimeSet(newBars) # {}

\* C35. After a merge the last row of the store carries the latest date of
\* all its rows, by its day field and by its caldt, and that is the date
\* get_last_data_date returns.
C35_LastRowHasLatestDate ==
    (mpc \in {"merged", "remerged"} /\ Len(store) > 0) =>
        LET last_row == store[Len(store)]
        IN  /\ \A i \in 1..Len(store) :
                  /\ store[i].day <= last_row.day
                  /\ dt_date(to_datetime(store[i].caldt)) <= last_row.day
            /\ get_last_data_date(store) = Date(last_row.day)
            /\ \E i \in 1..Len(store) :
                  get_last_data_date(store) = Date(dt_date(to_datetime(store[i].caldt)))

\* A merge, sorted by the partitioning sort, whose fetched bars are all of
\* days before the last day of the earlier store.
C35_Witness ==
    /\ mpc = "merged"
    /\ Len(prevStore) + Len(newBars) > SMALL_QUICKSORT + 1
    /\ newBars[Len(newBars)].day < prevStore[Len(prevStore)].day
    /\ get_last_data_date(store) = Date(prevStore[Len(prevStore)].day)

\* C36. On the free tier a call of download_and_merge_data whose start_date
\* is more than 730 days before the market date it reads sends no request,
\* returns None, and leaves the store as it was.
C36_FreeTierRejectsOldStart ==
    (/\ flow = "polygon"
     /\ rpc \in {"rejected", "fetched", "raised", "done"}
     /\ ~PAID_POLYGON_SUBSCRIPTION
     /\ todayMarket - startDate > 730) =>
        /\ rpc = "rejected"
        /\ requests = <<>>
        /\ newBars = <<>>
        /\ nMerges = 0
        /\ store = prevStore
        /\ storeExists = prevExists

\* A call rejected for a start 731 days before the market date: the range
\* was planned from today - 730 days and the market date has moved on.
C36_Witness ==
    /\ flow = "polygon"
    /\ rpc = "rejected"
    /\ todayMarket - startDate = 731
    /\ requests = <<>>

\* C37 (as claimed): a request with a valid symbol has the symbol at
\* "running" when its download starts and at "done" or "error" when its
\* handler returns; a request with a missing or rejected symbol, or one
\* whose body makes _extract_symbol raise, starts no download and changes
\* no state.
C37_StatusTerminalAtReturn ==
    \A h \in Handlers :
        /\ hd[h].pc \in {"downloading", "finished", "responding"} => hd[h].atCall = "running"
        /\ (hd[h].pc = "returned" /\ SymbolMatches(hd[h].symbol))
              => hd[h].seen \in {"done", "error"}
        /\ (hd[h].pc # "waiting" /\ ~SymbolMatches(hd[h].symbol))
              => /\ hd[h].pc \in {"returned", "raised"}
                 /\ hd[h].result \in {"bad_request", "no_reply"}
                 /\ hd[h].atCall = ""

\* The time of day tod lies between start and end, both included, going
\* past midnight when start is after end; an end that is None is open.
InsideWindow(tod, start_time, end_time) ==
    IF start_time # NoTime /\ end_time # NoTime
    THEN IF start_time <= end_time
         THEN start_time <= tod /\ tod <= end_time
         ELSE tod >= start_time \/ tod <= end_time
    ELSE /\ start_time # NoTime => tod >= start_time
         /\ end_time # NoTime => tod <= end_time

\* The minutes of the day a window admits: from the start minute to the end
\* minute, both included, going past midnight when start is after end;
\* every minute when start and end are the same minute.
WindowMinutes(start_time, end_time) ==
    { m \in 0..(24 * 60 - 1) :
        IF start_time # NoTime /\ end_time # NoTime
        THEN IF start_time \div 60 < end_time \div 60
             THEN start_time \div 60 <= m /\ m <= end_time \div 60
             ELSE IF start_time \div 60 > end_time \div 60
             THEN m >= start_time \div 60 \/ m <= end_time \div 60
             ELSE TRUE
        ELSE /\ start_time # NoTime => m >= start_time \div 60
             /\ end_time # NoTime => m <= end_time \div 60 }

\* C38 (as claimed): next_loop_timestamp returns a time after now, at second
\* 50, whose time of day lies inside the window, both ends included; with
\* no window it is at most 60 seconds after now.
C38_NextRunInsideWindow ==
    loop_state.active =>
        /\ loop_state.next_run > wall
        /\ loop_state.next_run % 60 = 50
        /\ InsideWindow(TimeOf(loop_state.next_run), loop_start_time, loop_end_time)
        /\ (loop_start_time = NoTime /\ loop_end_time = NoTime)
              => loop_state.next_run - wall <= 60

\* C38 (amended): next_loop_timestamp returns a time after now, at second
\* 50, whose hour and minute are a minute the window admits, so that it can
\* be 50 seconds past the end time; with no window it is at most 60 seconds
\* after now.
C38_NextRunInsideWindowByMinute ==
    loop_state.active =>
        /\ loop_state.next_run # NoTimestamp
        /\ loop_state.next_run > wall
        /\ loop_state.next_run % 60 = 50
        /\ TimeOf(loop_state.next_run) \div 60 \in WindowMinutes(loop_start_time, loop_end_time)
        /\ (loop_start_time = NoTime /\ loop_end_time = NoTime)
              => loop_state.next_run - wall <= 60

\* The next run of a window that goes past midnight falls in the window's
\* last minute, 50 seconds after the end time, and a full minute after now.
C38_Witness ==
    /\ loop_state.active
    /\ loopLog = <<>>
    /\ loop_end_time # NoTime
    /\ loop_start_time > loop_end_time
    /\ TimeOf(loop_state.next_run) = loop_end_time + 50
    /\ loop_state.next_run = wall + 60

\* C39: in the interactive export loop a scheduled batch runs only while the
\* loop is set and not paused, and only once its run time has come; after the
\* scheduled run the next run time lies strictly after the end of the run; and
\* a resume leaves a next run time strictly after the instant of the resume,
\* so a run that fell due during the pause is not executed at once.
C39_ScheduledRunsRespectPause ==
    \A i \in DOMAIN loopLog :
        LET entry == loopLog[i]
        IN  /\ entry.kind = "scheduled" =>
                /\ entry.active
                /\ ~entry.paused
                /\ entry.due <= entry.at
                /\ entry.next_run > entry.finished
            /\ entry.kind = "resumed" =>
                /\ entry.active
                /\ entry.next_run > entry.at

\* C39 witness: a loop was resumed after its run time had passed during the
\* pause, time has gone on since, and the run is still waiting for the
\* recomputed time.
C39_Witness ==
    /\ loopLog # <<>>
    /\ loopLog[1].kind = "resumed"
    /\ loopLog[1].due <= loopLog[1].at
    /\ wall > loopLog[1].at
    /\ wall < loopLog[1].next_run
    /\ ~paused
    /\ loop_state = [active |-> TRUE, next_run |-> loopLog[1].next_run]

====
